---- MODULE Spec2Model ----
(***************************************************************************)
(* Realtime pipeline of masphd: the orchestrator callback (on_decoded),    *)
(* the recent-segment cache, the threaded SQLite writer and the shutdown   *)
(* path of main().  Three threads are modelled: the main thread            *)
(* (run_for / run_forever, then close), the transport's receiver thread    *)
(* that runs the callback, and the sqlite-writer thread.                   *)
(***************************************************************************)
EXTENDS Integers, Sequences, FiniteSets, TLC

\* ------------------------------------------------------------------ bounds
\* RecentSegmentCache.max_size (--cache-size) as used in the model
max_size == 1
\* Queue(maxsize=queue_maxsize) as used in the model
queue_maxsize == 2
\* number of cache touches (RecentSegmentCache._tick) explored
MaxTick == 3

\* largest RecentSegmentCache.max_size in the cache-only specification
CacheMaxSize == 2
\* number of cache touches explored in the cache-only specification
CacheTicks == 4

\* queue size of the store in the burst specification
BurstQueueSize == 4
\* number of records the burst caller emits
BurstLen == 10

\* number of frames in the replayed stream
StreamLen == 2

\* largest --limit-rows of the enrichment worker explored
MaxLimitRows == 3
\* largest --max-rids of the enrichment worker explored
MaxMaxRids == 2

\* timestamps handed to the time utilities lie on day 0 .. MaxDay
MaxDay == 1

\* ------------------------------------------------------------- input data
\* Python None
None == "None"

Rids == {"X1"}
Ssds == {"2025-04-10"}
\* two adjacent tracked pairs of STATION_PAIRS
Pairs == {<<"SOTON", "SOTPKWY">>, <<"SOTPKWY", "WNCHSTR">>}
PlannedDeps == {"09:00"}
\* departure times at A: two successive estimates, then the confirmed actual
EstimateTimes == {"09:03", "09:04"}
ActualTimes == {"09:04"}

\* The fields of an extracted segment the orchestrator reads.  As in
\* extract_segments: has_actual_dep is true exactly when the departure time
\* is a confirmed actual, the kind is "missing" exactly when no departure
\* time is available, and planned_dep may be absent.
Segments ==
    { [rid |-> r, ssd |-> d, first |-> p[1], second |-> p[2],
       planned_dep |-> pd, dep_time_for_prediction |-> t,
       dep_time_kind |-> "actual", has_actual_dep |-> TRUE] :
        r \in Rids, d \in Ssds, p \in Pairs, pd \in PlannedDeps \cup {None},
        t \in ActualTimes }
    \cup
    { [rid |-> r, ssd |-> d, first |-> p[1], second |-> p[2],
       planned_dep |-> pd, dep_time_for_prediction |-> t,
       dep_time_kind |-> "estimate", has_actual_dep |-> FALSE] :
        r \in Rids, d \in Ssds, p \in Pairs, pd \in PlannedDeps \cup {None},
        t \in EstimateTimes }
    \cup
    { [rid |-> r, ssd |-> d, first |-> p[1], second |-> p[2],
       planned_dep |-> pd, dep_time_for_prediction |-> None,
       dep_time_kind |-> "missing", has_actual_dep |-> FALSE] :
        r \in Rids, d \in Ssds, p \in Pairs, pd \in PlannedDeps \cup {None} }

\* departure_delay_min of a segment is present only when ssd, planned_dep and
\* the departure time are all present
HasDepartureDelay(s) ==
    /\ s.ssd # None
    /\ s.planned_dep # None
    /\ s.dep_time_for_prediction # None

\* SegmentFeatureBuilder.build returns None (FALSE here) or a feature dict
build(s) ==
    IF s.ssd = None \/ s.planned_dep = None THEN FALSE
    ELSE IF ~HasDepartureDelay(s) THEN FALSE
    ELSE TRUE

\* seg_id = (rid, first, second, planned_dep)
SegId(s) == <<s.rid, s.first, s.second, s.planned_dep>>

\* the record the orchestrator builds for the store (identity and the
\* departure columns; the feature columns play no part in dispatch)
MakeRec(s) ==
    [rid |-> s.rid, ssd |-> s.ssd, first |-> s.first, second |-> s.second,
     planned_dep |-> s.planned_dep,
     dep_time |-> s.dep_time_for_prediction,
     dep_time_kind |-> s.dep_time_kind,
     has_actual_dep |-> s.has_actual_dep]

\* "no record": the rec slot of the sentinel and of an idle callback
NoRec ==
    [rid |-> None, ssd |-> None, first |-> None, second |-> None,
     planned_dep |-> None, dep_time |-> None, dep_time_kind |-> None,
     has_actual_dep |-> FALSE]

\* _SENTINEL = (None, None)
SENTINEL == [table |-> None, rec |-> NoRec]

\* ------------------------------------------- construction parameters
VARIABLES
    cacheMax,     \* RecentSegmentCache.max_size of the cache instance
    qMax,         \* maxsize of the store's Queue
    models,       \* per station pair, what the ensemble finds on disk: "ok",
                  \* "noweights" (no entry in the weights file) or "broken"
                  \* (artifact missing, no pipeline key, no predict)
    audit         \* whether the histories lru, dropped and nodrop are kept

\* ------------------------------------------------- recent-segment cache
\* The OrderedDict is a sequence of entries, least recently used first.
\* SegmentState() defaults
SegmentState(seg_id) ==
    [seg_id |-> seg_id, last_dep_time |-> None, last_kind |-> "missing",
     actual_saved |-> FALSE, last_seen_order |-> 0]

\* _od.get(seg_id): the index of the entry, 0 when absent
IndexOf(od, seg_id) ==
    IF \E i \in 1..Len(od) : od[i].seg_id = seg_id
    THEN CHOOSE i \in 1..Len(od) : od[i].seg_id = seg_id
    ELSE 0

InCache(od, seg_id) == IndexOf(od, seg_id) # 0

\* the sequence without its i-th element
RemoveAt(od, i) == [j \in 1..(Len(od) - 1) |-> IF j < i THEN od[j] ELSE od[j + 1]]

\* the field updates touch() makes on the (existing or fresh) state object;
\* actual_saved is not written
TouchStateReset(state, dep_time, kind, has_actual, tick) ==
    [state EXCEPT !.last_dep_time = dep_time,
                  !.last_kind = IF has_actual /\ kind # "actual" THEN "actual" ELSE kind,
                  !.last_seen_order = tick,
                  !.actual_saved = FALSE]

\* a touch that stores kind as it is given
TouchStateNoUpgrade(state, dep_time, kind, has_actual, tick) ==
    [state EXCEPT !.last_dep_time = dep_time,
                  !.last_kind = kind,
                  !.last_seen_order = tick]

TouchState(state, dep_time, kind, has_actual, tick) ==
    [state EXCEPT !.last_dep_time = dep_time,
                  !.last_kind = IF has_actual /\ kind # "actual" THEN "actual" ELSE kind,
                  !.last_seen_order = tick]

\* while len(_od) > max_size: _od.popitem(last=False)
RECURSIVE Evict(_)
Evict(od) == IF Len(od) > cacheMax THEN Evict(Tail(od)) ELSE od

\* touch() without the move_to_end: the entry is updated where it stands
touch_no_move(od, seg_id, dep_time, kind, has_actual, tick) ==
    LET i == IndexOf(od, seg_id)
    IN  IF i = 0
        THEN Evict(Append(od, TouchState(SegmentState(seg_id), dep_time, kind,
                                         has_actual, tick)))
        ELSE [od EXCEPT ![i] = TouchState(od[i], dep_time, kind, has_actual, tick)]

\* RecentSegmentCache.touch: the new OrderedDict (tick is the incremented _tick)
touch(od, seg_id, dep_time, kind, has_actual, tick) ==
    LET i == IndexOf(od, seg_id)
        state == IF i = 0 THEN SegmentState(seg_id) ELSE od[i]
        rest == IF i = 0 THEN od ELSE RemoveAt(od, i)
    IN  Evict(Append(rest, TouchState(state, dep_time, kind, has_actual, tick)))

\* RecentSegmentCache.mark_actual_saved
mark_actual_saved(od, seg_id) ==
    LET i == IndexOf(od, seg_id)
    IN  IF i = 0 THEN od ELSE [od EXCEPT ![i].actual_saved = TRUE]

\* ------------------------------------------------------- dispatch policy
\* on_decoded reads the prior cache state through hasattr-guarded getters;
\* RecentSegmentCache defines only touch, mark_actual_saved and __len__, so
\* every hasattr test is false and the defaults are used.
prev_dep(od, seg_id) == None
prev_kind(od, seg_id) == None
prev_actual_saved(od, seg_id) == FALSE

should_insert_all(pdep, pkind, dep_time, dep_kind) ==
    (pdep = None /\ pkind = None) \/ (dep_time # pdep) \/ (dep_kind # pkind)

should_insert_actual_any(has_actual, psaved) == ~psaved

should_insert_actual(has_actual, psaved) == has_actual /\ ~psaved

\* ------------------------------------------------------------- the store
TableNames == {"predictions_all", "predictions_actual"}

\* UNIQUE(rid, first, second, planned_dep)
UniqueKey(row) == <<row.rid, row.first, row.second, row.planned_dep>>

\* rid, first, second are NOT NULL columns
NotNullOk(row) == row.rid # None /\ row.first # None /\ row.second # None

\* a UNIQUE conflict: an existing row with the same key; SQLite treats
\* NULLs in a UNIQUE index as distinct from each other
Conflicts(tbl, row) ==
    /\ row.planned_dep # None
    /\ \E i \in 1..Len(tbl) : UniqueKey(tbl[i]) = UniqueKey(row)

insert_plain(tbl, row) == Append(tbl, row)

\* INSERT ... ON CONFLICT DO UPDATE: the conflicting row takes the new columns
insert_upsert(tbl, row) ==
    IF ~NotNullOk(row) THEN tbl
    ELSE IF Conflicts(tbl, row)
         THEN [i \in 1..Len(tbl) |->
                  IF UniqueKey(tbl[i]) = UniqueKey(row) THEN row ELSE tbl[i]]
         ELSE Append(tbl, row)

\* INSERT OR REPLACE: the conflicting row is deleted and the new one added
insert_or_replace(tbl, row) ==
    IF ~NotNullOk(row) THEN tbl
    ELSE Append(SelectSeq(tbl, LAMBDA r : ~(row.planned_dep # None /\
                                            UniqueKey(r) = UniqueKey(row))), row)

\* INSERT OR IGNORE INTO table (...) VALUES (...)
insert_with_conn(tbl, row) ==
    IF ~NotNullOk(row) \/ Conflicts(tbl, row) THEN tbl ELSE Append(tbl, row)

\* Queue.full()
QueueFullOffByOne(queue) == Len(queue) > qMax

\* a queue without a size limit
QueueFullNever(queue) == FALSE

QueueFull(queue) == Len(queue) >= qMax

\* Queue.get(): the item taken and the items left
QueueGetLast(queue) == [item |-> queue[Len(queue)], rest |-> SubSeq(queue, 1, Len(queue) - 1)]

QueueGet(queue) == [item |-> Head(queue), rest |-> Tail(queue)]

\* the tables as ensure_schema creates them
EmptyDb == [predictions_all |-> <<>>, predictions_actual |-> <<>>]

\* ------------------------------------------------------------------ state
VARIABLES
    od,           \* RecentSegmentCache._od
    tick,         \* RecentSegmentCache._tick
    q,            \* RealTimeSQLiteStore._q
    unfinished,   \* Queue.unfinished_tasks, what Queue.join() waits on
    stop,         \* RealTimeSQLiteStore._stop
    closed,       \* RealTimeSQLiteStore._closed
    db,           \* the tables predictions_all and predictions_actual
    connected,    \* DarwinClient._conn is set and subscribed
    mainPc,       \* position of the main thread
    cbPc,         \* position of the receiver thread inside on_decoded
    rec,          \* on_decoded: rec of the segment being dispatched
    ins_all,      \* on_decoded: should_insert_all
    ins_actual,   \* on_decoded: should_insert_actual
    inserted,     \* return value of the last _enqueue call
    writerPc,     \* position of the sqlite-writer thread
    item,         \* _writer_loop: the item taken from the queue
    pending,      \* history: the accepted items not yet taken up by an insert,
                  \*          in the order their enqueue returned True
    ignored,      \* history: <<table, seg_id>> of the inserts a conflict ignored
    everSaved,    \* history: seg_ids mark_actual_saved has been applied to
    owed,         \* history: how many of the items accepted before close() was
                  \*          called are not yet committed, -1 before the call
    lru,          \* history: the seg_ids touched so far, least recently touched first
    dropped,      \* history: <<table, seg_id>> of the enqueues a full queue dropped
    nodrop,       \* history: <<table, rec>> of the first enqueue call made for
                  \*          each table and seg_id, accepted or not: the rows of a
                  \*          run in which the queue never overflows
    frame,        \* on_decoded: the segments of the frame still to be processed
    emitted,      \* burst caller: number of insert_all calls that have returned
    ndropped,     \* burst caller: number of those that returned False
    stream,       \* replay: the frames the transport delivers, in order
    pos,          \* replay: index in stream of the next frame to deliver
    pass,         \* replay: 1 during the first replay of stream, 2 during the second
    first,        \* replay: the tables as the first replay left them
    pa,           \* enrichment: the rows of predictions_actual, in rowid order
    hspResp,      \* enrichment: what HSP returns for each rid
    before_date,  \* enrichment: --before-date
    limit_rows,   \* enrichment: --limit-rows
    max_rids,     \* enrichment: --max-rids
    dry_run,      \* enrichment: --dry-run
    aa,           \* enrichment: the rows of actual_arrivals_hsp, in rowid order
    epc,          \* enrichment: position of the worker's main()
    run,          \* enrichment: 1 during the first run of the worker, 2 during the second
    cand,         \* enrichment: candidates, the rows the run selected
    work,         \* enrichment: rids, the part of it still to be processed
    once,         \* enrichment: actual_arrivals_hsp as the first run left it
    truncated,    \* enrichment: the first run left candidates out because of
                  \*             limit_rows or max_rids
    written,          \* enrichment: main()'s counter written
    skipped_no_hsp,   \* enrichment: main()'s counter skipped_no_hsp
    skipped_no_match, \* enrichment: main()'s counter skipped_no_match
    skipped_no_times, \* enrichment: main()'s counter skipped_no_times
    fpc,          \* function call: "call" before the function is applied, "done" after
    arg,          \* function call: the arguments
    ret           \* function call: the value returned

vars == <<cacheMax, qMax, models, audit,
          pa, hspResp, before_date, limit_rows, max_rids, dry_run,
          aa, epc, run, cand, work, once, truncated,
          written, skipped_no_hsp, skipped_no_match, skipped_no_times,
          fpc, arg, ret,
          od, tick, q, unfinished, stop, closed, db, connected, mainPc, cbPc,
          rec, ins_all, ins_actual, inserted, writerPc, item,
          pending, ignored, everSaved, owed, lru, dropped, nodrop,
          frame, emitted, ndropped, stream, pos, pass, first>>

confVars == <<cacheMax, qMax, models, audit>>
cacheVars == <<od, tick>>
storeVars == <<q, unfinished, stop, closed>>
cbVars == <<cbPc, rec, ins_all, ins_actual, inserted>>
writerVars == <<writerPc, item>>
histVars == <<pending, ignored, everSaved, owed, lru, dropped, nodrop>>
burstVars == <<emitted, ndropped>>
replayVars == <<stream, pos, pass, first>>
counterVars == <<written, skipped_no_hsp, skipped_no_match, skipped_no_times>>
enrichVars == <<pa, hspResp, before_date, limit_rows, max_rids, dry_run,
                aa, epc, run, cand, work, once, truncated, counterVars>>
pureVars == <<fpc, arg, ret>>
auxVars == <<burstVars, replayVars, enrichVars, pureVars>>

\* no function call is being examined
PureOff ==
    /\ fpc = "off"
    /\ arg = <<>>
    /\ ret = <<>>

\* close(drain=True, join_timeout=10.0): drain is True by default and in
\* main()'s call; a caller that passes another value has it in arg
drain == IF DOMAIN arg = {"drain"} THEN arg.drain ELSE TRUE

\* rids of the services in predictions_actual
EnrichRids == {"R1", "R2"}

\* a station HSP has no location for (or whose CRS is not on the route)
NoLoc == [present |-> FALSE, pta |-> -1, ata |-> -1]

\* the HSP request failed
NoAnswer == [outcome |-> "transport_error", SOTPKWY |-> NoLoc, WNCHSTR |-> NoLoc]

\* the enrichment worker is not running
EnrichOff ==
    /\ pa = <<>>
    /\ hspResp = [r \in EnrichRids |-> NoAnswer]
    /\ before_date = "2025-04-11"
    /\ limit_rows = MaxLimitRows
    /\ max_rids = MaxMaxRids
    /\ dry_run = FALSE
    /\ aa = <<>>
    /\ epc = "off"
    /\ run = 1
    /\ cand = <<>>
    /\ work = <<>>
    /\ once = <<>>
    /\ truncated = FALSE
    /\ written = 0
    /\ skipped_no_hsp = 0
    /\ skipped_no_match = 0
    /\ skipped_no_times = 0

Init ==
    /\ cacheMax = max_size
    /\ qMax = queue_maxsize
    /\ models = [p \in Pairs |-> "ok"]
    /\ audit = FALSE
    /\ od = <<>>
    /\ tick = 0
    /\ q = <<>>
    /\ unfinished = 0
    /\ stop = FALSE
    /\ closed = FALSE
    /\ db = EmptyDb
    /\ connected = TRUE
    /\ mainPc \in {"run_for", "run_forever"}
    /\ cbPc = "idle"
    /\ rec = NoRec
    /\ ins_all = FALSE
    /\ ins_actual = FALSE
    /\ inserted = FALSE
    /\ writerPc = "get"
    /\ item = SENTINEL
    /\ pending = <<>>
    /\ ignored = {}
    /\ everSaved = {}
    /\ owed = -1
    /\ lru = <<>>
    /\ dropped = {}
    /\ nodrop = {}
    /\ frame = <<>>
    /\ emitted = 0
    /\ ndropped = 0
    /\ stream = <<>>
    /\ pos = 1
    /\ pass = 1
    /\ first = EmptyDb
    /\ EnrichOff
    /\ PureOff

\* the interpreter lives until the main thread has returned and the
\* non-daemon writer thread has ended
ProcessAlive == ~(mainPc = "done" /\ writerPc \in {"exited", "died"})

\* ------------------------------------------- receiver thread: on_decoded
\* the callback reaches the end of the loop body for the segment
Goto(pc) ==
    /\ cbPc' = pc
    /\ IF pc = "idle"
       THEN rec' = NoRec /\ ins_all' = FALSE /\ ins_actual' = FALSE
       ELSE UNCHANGED <<rec, ins_all, ins_actual>>

AfterAll == IF ins_actual THEN "insert_actual" ELSE "idle"

\* ensemble.predict_one(first, second, X): None without weights for the
\* pair, an exception when an artifact cannot be loaded or used, else a value
predict_one(m, s) ==
    IF m[<<s.first, s.second>>] = "noweights" THEN "None"
    ELSE IF m[<<s.first, s.second>>] = "broken" THEN "raise"
    ELSE "yhat"

\* on_decoded, loop body for one surviving segment s up to the dispatch
\* decision, rest being the segments of the frame after s: build features,
\* predict, read the prior state, touch, decide, build rec.  An exception
\* raised by predict_one is not caught in on_decoded: it ends the call and
\* is caught by on_message, so the rest of the frame is not processed.
OnSegment(s, rest) ==
    /\ cbPc = "idle"
    /\ connected
    /\ ProcessAlive
    /\ IF ~build(s) \/ predict_one(models, s) = "None"
       THEN /\ frame' = rest
            /\ UNCHANGED <<confVars, auxVars, cacheVars, storeVars, db, connected,
                           mainPc, cbVars, writerVars, histVars>>
       ELSE IF predict_one(models, s) = "raise"
       THEN /\ frame' = <<>>
            /\ UNCHANGED <<confVars, auxVars, cacheVars, storeVars, db, connected,
                           mainPc, cbVars, writerVars, histVars>>
       ELSE LET seg_id == SegId(s)
                dep_time == s.dep_time_for_prediction
                dep_kind == s.dep_time_kind
                has_actual == s.has_actual_dep
                pdep == prev_dep(od, seg_id)
                pkind == prev_kind(od, seg_id)
                psaved == prev_actual_saved(od, seg_id)
            IN  /\ tick' = tick + 1
                /\ od' = touch(od, seg_id, dep_time, dep_kind, has_actual, tick + 1)
                /\ ins_all' = should_insert_all(pdep, pkind, dep_time, dep_kind)
                /\ ins_actual' = should_insert_actual(has_actual, psaved)
                /\ rec' = MakeRec(s)
                /\ cbPc' = "insert_all"
                /\ lru' = IF audit
                          THEN Append(SelectSeq(lru, LAMBDA k : k # seg_id), seg_id)
                          ELSE lru
                /\ frame' = rest
                /\ UNCHANGED <<confVars, auxVars, storeVars, db, connected, mainPc,
                               inserted, writerVars, pending, ignored, everSaved,
                               owed, dropped, nodrop>>

\* on_decoded is called with a frame that carries one tracked segment; the
\* number of touches explored is capped
OnDecoded ==
    \E s \in Segments :
        /\ tick < MaxTick
        /\ frame = <<>>
        /\ OnSegment(s, <<>>)

\* an _enqueue that does not look at self._closed
EnqueueWithoutCheck(here, put, after) ==
    /\ cbPc = here
    /\ cbPc' = put
    /\ UNCHANGED <<rec, ins_all, ins_actual, inserted>>
    /\ UNCHANGED <<confVars, auxVars, frame, cacheVars, storeVars, db, connected, mainPc, writerVars, histVars>>

\* an _enqueue that executes the INSERT itself, on the calling thread
EnqueueInsertsItself(here, table, ok, fail) ==
    /\ cbPc = here
    /\ db' = [db EXCEPT ![table] = insert_with_conn(db[table], rec)]
    /\ inserted' = TRUE
    /\ Goto(ok)
    /\ UNCHANGED <<confVars, auxVars, frame, cacheVars, storeVars, connected, mainPc, writerVars, histVars>>

\* _enqueue, first half: if self._closed: return False
EnqueueCheck(here, put, after) ==
    /\ cbPc = here
    /\ IF closed
       THEN inserted' = FALSE /\ Goto(after)
       ELSE cbPc' = put /\ UNCHANGED <<rec, ins_all, ins_actual, inserted>>
    /\ UNCHANGED <<confVars, auxVars, frame, cacheVars, storeVars, db, connected, mainPc, writerVars, histVars>>

\* _enqueue, second half: self._q.put((table, rec), block=False)
EnqueuePut(here, table, ok, fail) ==
    /\ cbPc = here
    /\ IF QueueFull(q)
       THEN /\ inserted' = FALSE
            /\ Goto(fail)
            /\ dropped' = IF audit THEN dropped \cup {<<table, UniqueKey(rec)>>} ELSE dropped
            /\ UNCHANGED <<q, unfinished, pending>>
       ELSE /\ q' = Append(q, [table |-> table, rec |-> rec])
            /\ unfinished' = unfinished + 1
            /\ pending' = Append(pending, [table |-> table, rec |-> rec])
            /\ inserted' = TRUE
            /\ Goto(ok)
            /\ UNCHANGED dropped
    /\ nodrop' = IF ~audit \/ \E x \in nodrop : x[1] = table /\ UniqueKey(x[2]) = UniqueKey(rec)
                 THEN nodrop
                 ELSE nodrop \cup {<<table, rec>>}
    /\ UNCHANGED <<confVars, auxVars, frame, cacheVars, stop, closed, db, connected, mainPc, writerVars,
                   ignored, everSaved, owed, lru>>

\* if should_insert_all: store.insert_all(rec)
InsertAllCheck ==
    IF ins_all
    THEN EnqueueCheck("insert_all", "put_all", AfterAll)
    ELSE /\ cbPc = "insert_all"
         /\ Goto(AfterAll)
         /\ UNCHANGED <<confVars, auxVars, frame, cacheVars, storeVars, db, connected, mainPc, inserted,
                        writerVars, histVars>>

InsertAllPut == EnqueuePut("put_all", "predictions_all", AfterAll, AfterAll)

\* if should_insert_actual: inserted = store.insert_actual(rec)
InsertActualCheck == EnqueueCheck("insert_actual", "put_actual", "idle")

InsertActualPutAlwaysMark == EnqueuePut("put_actual", "predictions_actual", "mark", "mark")

InsertActualPut == EnqueuePut("put_actual", "predictions_actual", "mark", "idle")

\* if inserted: cache.mark_actual_saved(seg_id)
MarkActualSaved ==
    /\ cbPc = "mark"
    /\ od' = mark_actual_saved(od, UniqueKey(rec))
    /\ everSaved' = IF InCache(od, UniqueKey(rec))
                    THEN everSaved \cup {UniqueKey(rec)} ELSE everSaved
    /\ Goto("idle")
    /\ UNCHANGED <<confVars, auxVars, frame, tick, storeVars, db, connected, mainPc, inserted, writerVars,
                   pending, ignored, owed, lru, dropped, nodrop>>

\* ------------------------------------------ writer thread: _writer_loop
\* item = self._q.get(timeout=0.5) returned an item
WriterGet ==
    /\ writerPc = "get"
    /\ q # <<>>
    /\ LET got == QueueGet(q)
       IN  /\ q' = got.rest
           /\ IF got.item.table = None /\ got.item.rec = NoRec
              THEN \* sentinel: break, task_done in the finally, conn.close()
                   /\ unfinished' = unfinished - 1
                   /\ writerPc' = "exited"
                   /\ item' = SENTINEL
              ELSE /\ writerPc' = "insert"
                   /\ item' = got.item
                   /\ UNCHANGED unfinished
    /\ UNCHANGED <<confVars, auxVars, frame, cacheVars, stop, closed, db, connected, mainPc, cbVars, histVars>>

\* the get timed out (Empty) and the stop event is set: break
WriterStopOnEmpty ==
    /\ writerPc = "get"
    /\ q = <<>>
    /\ stop
    /\ writerPc' = "exited"
    /\ UNCHANGED <<confVars, auxVars, frame, cacheVars, storeVars, db, connected, mainPc, cbVars, item, histVars>>

\* self._insert_with_conn(conn, table, rec); conn.commit(); then the
\* finally: self._q.task_done()
WriterInsert ==
    /\ writerPc = "insert"
    /\ db' = [db EXCEPT ![item.table] = insert_with_conn(db[item.table], item.rec)]
    /\ pending' = Tail(pending)
    /\ ignored' = IF Conflicts(db[item.table], item.rec)
                  THEN ignored \cup {<<item.table, UniqueKey(item.rec)>>}
                  ELSE ignored
    /\ owed' = IF owed > 0 THEN owed - 1 ELSE owed
    /\ unfinished' = unfinished - 1
    /\ writerPc' = "get"
    /\ item' = SENTINEL
    /\ UNCHANGED <<confVars, auxVars, frame, cacheVars, q, stop, closed, connected, mainPc, cbVars, everSaved,
                   lru, dropped, nodrop>>

\* execute or commit raises (disk error, database locked): the inner finally
\* runs task_done, the exception leaves the while loop, the outer finally
\* closes the connection and the thread ends
WriterInsertRaises ==
    /\ writerPc = "insert"
    /\ pending' = Tail(pending)
    /\ unfinished' = unfinished - 1
    /\ writerPc' = "died"
    /\ item' = SENTINEL
    /\ UNCHANGED <<confVars, auxVars, frame, cacheVars, q, stop, closed, db, connected, mainPc, cbVars,
                   ignored, everSaved, owed, lru, dropped, nodrop>>

\* ------------------------------------------------- main thread: main()
\* DarwinClient.disconnect, reached through the finally of run_for: the
\* transport is stopped, which waits for the receiver thread to finish the
\* frame it is delivering
disconnect ==
    /\ cbPc = "idle"
    /\ connected' = FALSE

\* run_for: the while loop ends when time.time() reaches end_time; the
\* finally disconnects and main's finally calls close
TimerExpires ==
    /\ mainPc = "run_for"
    /\ disconnect
    /\ mainPc' = "close"
    /\ UNCHANGED <<confVars, auxVars, frame, cacheVars, storeVars, db, cbVars, writerVars, histVars>>

\* SIGINT raises KeyboardInterrupt in the sleeping main thread.  Inside
\* run_for its finally disconnects before the exception reaches main;
\* run_forever has no handler and no finally, so control goes straight to
\* main's except and finally with the transport still connected
KeyboardInterrupt ==
    /\ mainPc \in {"run_for", "run_forever"}
    /\ IF mainPc = "run_for" THEN disconnect ELSE UNCHANGED connected
    /\ mainPc' = "close"
    /\ UNCHANGED <<confVars, auxVars, frame, cacheVars, storeVars, db, cbVars, writerVars, histVars>>

\* close: if self._closed: return; self._closed = True
CloseBegin ==
    /\ mainPc = "close"
    /\ IF closed
       THEN mainPc' = "done" /\ UNCHANGED <<closed, owed>>
       ELSE /\ closed' = TRUE
            /\ owed' = Len(pending)
            /\ mainPc' = IF drain THEN "drain" ELSE "set_stop"
    /\ UNCHANGED <<confVars, auxVars, frame, cacheVars, q, unfinished, stop, db, connected, cbVars,
                   writerVars, pending, ignored, everSaved, lru, dropped, nodrop>>

\* if drain: self._q.join() returns once every put has had its task_done
CloseDrain ==
    /\ mainPc = "drain"
    /\ unfinished = 0
    /\ mainPc' = "set_stop"
    /\ UNCHANGED <<confVars, auxVars, frame, cacheVars, storeVars, db, connected, cbVars, writerVars, histVars>>

\* self._stop.set()
CloseSetStop ==
    /\ mainPc = "set_stop"
    /\ stop' = TRUE
    /\ mainPc' = "put_sentinel"
    /\ UNCHANGED <<confVars, auxVars, frame, cacheVars, q, unfinished, closed, db, connected, cbVars,
                   writerVars, histVars>>

\* self._q.put_nowait(_SENTINEL), Full is swallowed
ClosePutSentinel ==
    /\ mainPc = "put_sentinel"
    /\ IF QueueFull(q)
       THEN UNCHANGED <<q, unfinished>>
       ELSE q' = Append(q, SENTINEL) /\ unfinished' = unfinished + 1
    /\ mainPc' = "join"
    /\ UNCHANGED <<confVars, auxVars, frame, cacheVars, stop, closed, db, connected, cbVars, writerVars, histVars>>

\* self._writer.join(timeout=join_timeout) returns: the writer has ended or
\* the timeout has elapsed
CloseJoin ==
    /\ mainPc = "join"
    /\ mainPc' = "done"
    /\ UNCHANGED <<confVars, auxVars, frame, cacheVars, storeVars, db, connected, cbVars, writerVars, histVars>>

\* ---------------------------------------------------------- specification
CallbackStep ==
    \/ OnDecoded
    \/ InsertAllCheck
    \/ InsertAllPut
    \/ InsertActualCheck
    \/ InsertActualPut
    \/ MarkActualSaved

WriterStep ==
    \/ WriterGet
    \/ WriterStopOnEmpty
    \/ WriterInsert
    \/ WriterInsertRaises

MainStep ==
    \/ TimerExpires
    \/ KeyboardInterrupt
    \/ CloseBegin
    \/ CloseDrain
    \/ CloseSetStop
    \/ ClosePutSentinel
    \/ CloseJoin

Next == CallbackStep \/ WriterStep \/ MainStep

Spec == Init /\ [][Next]_vars

\* ------------------------------------- the pipeline while it is running
\* the program in unlimited mode (--minutes -1) before any interrupt: the
\* receiver thread and the writer thread, with the histories kept
InitRetry ==
    /\ cacheMax = max_size
    /\ qMax = queue_maxsize
    /\ models = [p \in Pairs |-> "ok"]
    /\ audit = TRUE
    /\ od = <<>>
    /\ tick = 0
    /\ q = <<>>
    /\ unfinished = 0
    /\ stop = FALSE
    /\ closed = FALSE
    /\ db = EmptyDb
    /\ connected = TRUE
    /\ mainPc = "run_forever"
    /\ cbPc = "idle"
    /\ rec = NoRec
    /\ ins_all = FALSE
    /\ ins_actual = FALSE
    /\ inserted = FALSE
    /\ writerPc = "get"
    /\ item = SENTINEL
    /\ pending = <<>>
    /\ ignored = {}
    /\ everSaved = {}
    /\ owed = -1
    /\ lru = <<>>
    /\ dropped = {}
    /\ nodrop = {}
    /\ frame = <<>>
    /\ emitted = 0
    /\ ndropped = 0
    /\ stream = <<>>
    /\ pos = 1
    /\ pass = 1
    /\ first = EmptyDb
    /\ EnrichOff
    /\ PureOff

NextRetry ==
    \/ CallbackStep
    \/ WriterGet
    \/ WriterInsert
    \/ WriterInsertRaises

SpecRetry == InitRetry /\ [][NextRetry]_vars

\* ---------------------------------------------- a replayed frame stream
\* the estimate and the actual snapshot of the train on a pair
EstSeg(p) ==
    [rid |-> "X1", ssd |-> "2025-04-10", first |-> p[1], second |-> p[2],
     planned_dep |-> "09:00", dep_time_for_prediction |-> "09:03",
     dep_time_kind |-> "estimate", has_actual_dep |-> FALSE]

ActSeg(p) ==
    [rid |-> "X1", ssd |-> "2025-04-10", first |-> p[1], second |-> p[2],
     planned_dep |-> "09:00", dep_time_for_prediction |-> "09:04",
     dep_time_kind |-> "actual", has_actual_dep |-> TRUE]

PairA == <<"SOTON", "SOTPKWY">>
PairB == <<"SOTPKWY", "WNCHSTR">>

\* STOMP frames: body_ok says whether the body decompresses and parses,
\* segs are the segments extract_segments and the time filter yield from it
Frames ==
    { [body_ok |-> TRUE, segs |-> <<EstSeg(PairA), EstSeg(PairB)>>],
      [body_ok |-> TRUE, segs |-> <<ActSeg(PairA), ActSeg(PairB)>>],
      [body_ok |-> FALSE, segs |-> <<EstSeg(PairA)>>] }

ModelStates == {"ok", "noweights", "broken"}

\* decode_message raises when the body is not valid; a lenient decoder
\* would hand on whatever it could read
decode_lenient(f) == [raised |-> FALSE, segs |-> f.segs]

decode_message(f) ==
    IF f.body_ok
    THEN [raised |-> FALSE, segs |-> f.segs]
    ELSE [raised |-> TRUE, segs |-> <<>>]

\* the program started on an empty database with a stream of StreamLen
\* frames to come, running until interrupted
InitFrames ==
    /\ cacheMax = max_size
    /\ qMax = queue_maxsize
    /\ models \in [Pairs -> ModelStates]
    /\ audit = TRUE
    /\ od = <<>>
    /\ tick = 0
    /\ q = <<>>
    /\ unfinished = 0
    /\ stop = FALSE
    /\ closed = FALSE
    /\ db = EmptyDb
    /\ connected = TRUE
    /\ mainPc = "run_forever"
    /\ cbPc = "idle"
    /\ rec = NoRec
    /\ ins_all = FALSE
    /\ ins_actual = FALSE
    /\ inserted = FALSE
    /\ writerPc = "get"
    /\ item = SENTINEL
    /\ pending = <<>>
    /\ ignored = {}
    /\ everSaved = {}
    /\ owed = -1
    /\ lru = <<>>
    /\ dropped = {}
    /\ nodrop = {}
    /\ frame = <<>>
    /\ emitted = 0
    /\ ndropped = 0
    /\ stream \in [1..StreamLen -> Frames]
    /\ pos = 1
    /\ pass = 1
    /\ first = EmptyDb
    /\ EnrichOff
    /\ PureOff

\* DarwinListener.on_message: decode the body and call on_decoded; any
\* exception is caught and logged.  on_decoded extracts the segments and
\* returns at once when there are none
OnMessage ==
    /\ cbPc = "idle"
    /\ frame = <<>>
    /\ connected
    /\ pos <= Len(stream)
    /\ LET d == decode_message(stream[pos])
       IN  frame' = IF d.raised THEN <<>> ELSE d.segs
    /\ pos' = pos + 1
    /\ UNCHANGED <<confVars, burstVars, enrichVars, pureVars, stream, pass, first, cacheVars, storeVars,
                   db, connected, mainPc, cbVars, writerVars, histVars>>

\* on_decoded: the for loop takes the next segment of the frame
FrameSegment ==
    /\ frame # <<>>
    /\ OnSegment(Head(frame), Tail(frame))

\* the stream has been delivered and the writer has nothing left to do (or
\* has ended): the program is stopped and started again on the same
\* database, with a new cache, a new store and a new writer thread, and the
\* stream is delivered a second time
Replay ==
    /\ pass = 1
    /\ pos > Len(stream)
    /\ frame = <<>>
    /\ cbPc = "idle"
    /\ \/ q = <<>> /\ writerPc = "get"
       \/ writerPc = "died"
    /\ pass' = 2
    /\ pos' = 1
    /\ first' = db
    /\ od' = <<>>
    /\ tick' = 0
    /\ q' = <<>>
    /\ unfinished' = 0
    /\ writerPc' = "get"
    /\ item' = SENTINEL
    /\ pending' = <<>>
    /\ lru' = <<>>
    /\ everSaved' = {}
    /\ UNCHANGED <<confVars, burstVars, enrichVars, pureVars, stream, frame, stop, closed, db, connected,
                   mainPc, cbVars, ignored, owed, dropped, nodrop>>

NextFrames ==
    \/ OnMessage
    \/ FrameSegment
    \/ InsertAllCheck
    \/ InsertAllPut
    \/ InsertActualCheck
    \/ InsertActualPut
    \/ MarkActualSaved
    \/ WriterGet
    \/ WriterInsert
    \/ WriterInsertRaises
    \/ Replay

SpecFrames == InitFrames /\ [][NextFrames]_vars

\* ------------------------------------------------- a burst of enqueues
\* rids of the records of the burst, all different
BurstRids ==
    <<"B01", "B02", "B03", "B04", "B05", "B06", "B07", "B08", "B09", "B10",
      "B11", "B12">>

\* the i-th record of the burst
BurstRec(i) ==
    [rid |-> BurstRids[i], ssd |-> "2025-04-10", first |-> "SOTON",
     second |-> "SOTPKWY", planned_dep |-> "09:00", dep_time |-> "09:03",
     dep_time_kind |-> "estimate", has_actual_dep |-> FALSE]

\* a RealTimeSQLiteStore(queue_maxsize=BurstQueueSize) whose caller makes
\* BurstLen insert_all calls one after the other and then closes the store
InitBurst ==
    /\ cacheMax = max_size
    /\ qMax = BurstQueueSize
    /\ models = [p \in Pairs |-> "ok"]
    /\ audit = FALSE
    /\ od = <<>>
    /\ tick = 0
    /\ q = <<>>
    /\ unfinished = 0
    /\ stop = FALSE
    /\ closed = FALSE
    /\ db = EmptyDb
    /\ connected = FALSE
    /\ mainPc = "burst"
    /\ cbPc = "burst"
    /\ rec = BurstRec(1)
    /\ ins_all = FALSE
    /\ ins_actual = FALSE
    /\ inserted = FALSE
    /\ writerPc = "get"
    /\ item = SENTINEL
    /\ pending = <<>>
    /\ ignored = {}
    /\ everSaved = {}
    /\ owed = -1
    /\ lru = <<>>
    /\ dropped = {}
    /\ nodrop = {}
    /\ frame = <<>>
    /\ emitted = 0
    /\ ndropped = 0
    /\ stream = <<>>
    /\ pos = 1
    /\ pass = 1
    /\ first = EmptyDb
    /\ EnrichOff
    /\ PureOff

\* store.insert_all(rec): _enqueue, first half
BurstCheck == EnqueueCheck("burst", "burst_put", "burst_ret")

\* store.insert_all(rec): _enqueue, second half
BurstPut == EnqueuePut("burst_put", "predictions_all", "burst_ret", "burst_ret")

\* insert_all has returned: the caller counts the result and goes on to the
\* next record
BurstReturn ==
    /\ cbPc = "burst_ret"
    /\ emitted' = emitted + 1
    /\ ndropped' = IF inserted THEN ndropped ELSE ndropped + 1
    /\ IF emitted + 1 < BurstLen
       THEN cbPc' = "burst" /\ rec' = BurstRec(emitted + 2)
       ELSE cbPc' = "burst_done" /\ rec' = NoRec
    /\ UNCHANGED <<confVars, replayVars, enrichVars, pureVars, frame, cacheVars, storeVars, db, connected,
                   mainPc, ins_all, ins_actual, inserted, writerVars, histVars>>

\* after the last call the caller runs store.close(drain=True)
BurstEnds ==
    /\ mainPc = "burst"
    /\ cbPc = "burst_done"
    /\ mainPc' = "close"
    /\ UNCHANGED <<confVars, auxVars, frame, cacheVars, storeVars, db, connected,
                   cbVars, writerVars, histVars>>

BurstStep ==
    \/ BurstCheck
    \/ BurstPut
    \/ BurstReturn
    \/ BurstEnds

NextBurst ==
    \/ BurstStep
    \/ WriterStep
    \/ CloseBegin
    \/ CloseDrain
    \/ CloseSetStop
    \/ ClosePutSentinel
    \/ CloseJoin

SpecBurst == InitBurst /\ [][NextBurst]_vars

\* ------------------------------------------- the cache object on its own
\* a RecentSegmentCache(max_size) driven directly by calls of touch and
\* mark_actual_saved, with any key a segment can carry
InitCache ==
    /\ cacheMax \in 1..CacheMaxSize
    /\ qMax = queue_maxsize
    /\ models = [p \in Pairs |-> "ok"]
    /\ audit = FALSE
    /\ od = <<>>
    /\ tick = 0
    /\ q = <<>>
    /\ unfinished = 0
    /\ stop = FALSE
    /\ closed = FALSE
    /\ db = EmptyDb
    /\ connected = FALSE
    /\ mainPc = "run_forever"
    /\ cbPc = "idle"
    /\ rec = NoRec
    /\ ins_all = FALSE
    /\ ins_actual = FALSE
    /\ inserted = FALSE
    /\ writerPc = "get"
    /\ item = SENTINEL
    /\ pending = <<>>
    /\ ignored = {}
    /\ everSaved = {}
    /\ owed = -1
    /\ lru = <<>>
    /\ dropped = {}
    /\ nodrop = {}
    /\ frame = <<>>
    /\ emitted = 0
    /\ ndropped = 0
    /\ stream = <<>>
    /\ pos = 1
    /\ pass = 1
    /\ first = EmptyDb
    /\ EnrichOff
    /\ PureOff

\* cache.touch(seg_id, dep_time=..., kind=..., has_actual=...)
CacheTouch(s) ==
    /\ tick < CacheTicks
    /\ tick' = tick + 1
    /\ od' = touch(od, SegId(s), s.dep_time_for_prediction, s.dep_time_kind,
                   s.has_actual_dep, tick + 1)
    /\ lru' = Append(SelectSeq(lru, LAMBDA k : k # SegId(s)), SegId(s))
    /\ UNCHANGED <<confVars, auxVars, frame, storeVars, db, connected, mainPc, cbVars, writerVars,
                   pending, ignored, everSaved, owed, dropped, nodrop>>

\* cache.mark_actual_saved(seg_id)
CacheMark(seg_id) ==
    /\ od' = mark_actual_saved(od, seg_id)
    /\ everSaved' = IF InCache(od, seg_id) THEN everSaved \cup {seg_id} ELSE everSaved
    /\ UNCHANGED <<confVars, auxVars, frame, tick, storeVars, db, connected, mainPc, cbVars, writerVars,
                   pending, ignored, owed, lru, dropped, nodrop>>

NextCache ==
    \/ \E s \in Segments : CacheTouch(s)
    \/ \E s \in Segments : CacheMark(SegId(s))

SpecCache == InitCache /\ [][NextCache]_vars

\* ------------------------------------ touch called with any arguments
\* number of touch calls explored
TouchCalls == 3

\* largest RecentSegmentCache.max_size touch is called on
TouchMaxSize == 2

\* the keys, departure times and kinds touch is called with
TouchKeys == {SegId(s) : s \in Segments}
TouchDepTimes == {"09:03", None}
TouchKinds == {"estimate", "actual", "missing"}

\* a RecentSegmentCache(max_size) whose touch is called with any
\* combination of arguments, has_actual independent of kind; arg holds the
\* arguments of the last call
InitTouch ==
    /\ cacheMax \in 1..TouchMaxSize
    /\ qMax = queue_maxsize
    /\ models = [p \in Pairs |-> "ok"]
    /\ audit = FALSE
    /\ od = <<>>
    /\ tick = 0
    /\ q = <<>>
    /\ unfinished = 0
    /\ stop = FALSE
    /\ closed = FALSE
    /\ db = EmptyDb
    /\ connected = FALSE
    /\ mainPc = "run_forever"
    /\ cbPc = "idle"
    /\ rec = NoRec
    /\ ins_all = FALSE
    /\ ins_actual = FALSE
    /\ inserted = FALSE
    /\ writerPc = "get"
    /\ item = SENTINEL
    /\ pending = <<>>
    /\ ignored = {}
    /\ everSaved = {}
    /\ owed = -1
    /\ lru = <<>>
    /\ dropped = {}
    /\ nodrop = {}
    /\ frame = <<>>
    /\ emitted = 0
    /\ ndropped = 0
    /\ stream = <<>>
    /\ pos = 1
    /\ pass = 1
    /\ first = EmptyDb
    /\ EnrichOff
    /\ PureOff

\* cache.touch(seg_id, dep_time, kind, has_actual)
TouchCall(seg_id, dep_time, kind, has_actual) ==
    /\ tick < TouchCalls
    /\ tick' = tick + 1
    /\ od' = touch(od, seg_id, dep_time, kind, has_actual, tick + 1)
    /\ arg' = [seg_id |-> seg_id, dep_time |-> dep_time, kind |-> kind,
               has_actual |-> has_actual]
    /\ UNCHANGED <<confVars, burstVars, replayVars, enrichVars, fpc, ret, frame, storeVars, db,
                   connected, mainPc, cbVars, writerVars, histVars>>

\* cache.mark_actual_saved(seg_id)
TouchMark(seg_id) ==
    /\ od' = mark_actual_saved(od, seg_id)
    /\ UNCHANGED <<confVars, auxVars, frame, tick, storeVars, db, connected, mainPc, cbVars,
                   writerVars, histVars>>

NextTouch ==
    \/ \E seg_id \in TouchKeys, dep_time \in TouchDepTimes, kind \in TouchKinds, has_actual \in BOOLEAN :
            TouchCall(seg_id, dep_time, kind, has_actual)
    \/ \E seg_id \in TouchKeys : TouchMark(seg_id)

SpecTouch == InitTouch /\ [][NextTouch]_vars

\* ------------------------------------------- the store object on its own
\* number of insert calls the caller of the store makes
StoreCalls == 3

\* largest queue_maxsize the store is constructed with
StoreQueueSize == 2

\* a RealTimeSQLiteStore(queue_maxsize) used by two threads: one calls
\* insert_all and insert_actual, the other calls close(drain) and later
\* close again; no insert fails
InitStore ==
    /\ cacheMax = max_size
    /\ qMax \in 1..StoreQueueSize
    /\ models = [p \in Pairs |-> "ok"]
    /\ audit = TRUE
    /\ od = <<>>
    /\ tick = 0
    /\ q = <<>>
    /\ unfinished = 0
    /\ stop = FALSE
    /\ closed = FALSE
    /\ db = EmptyDb
    /\ connected = FALSE
    /\ mainPc = "close"
    /\ cbPc = "caller"
    /\ rec = NoRec
    /\ ins_all = FALSE
    /\ ins_actual = FALSE
    /\ inserted = FALSE
    /\ writerPc = "get"
    /\ item = SENTINEL
    /\ pending = <<>>
    /\ ignored = {}
    /\ everSaved = {}
    /\ owed = -1
    /\ lru = <<>>
    /\ dropped = {}
    /\ nodrop = {}
    /\ frame = <<>>
    /\ emitted = 0
    /\ ndropped = 0
    /\ stream = <<>>
    /\ pos = 1
    /\ pass = 1
    /\ first = EmptyDb
    /\ EnrichOff
    /\ fpc = "off"
    /\ arg \in [drain : BOOLEAN]
    /\ ret = <<>>

\* the caller calls store.insert_all(rec) or store.insert_actual(rec)
StoreCall ==
    /\ cbPc = "caller"
    /\ emitted < StoreCalls
    /\ rec' = BurstRec(emitted + 1)
    /\ cbPc' \in {"call_all", "call_actual"}
    /\ UNCHANGED <<confVars, auxVars, frame, cacheVars, storeVars, db, connected, mainPc,
                   ins_all, ins_actual, inserted, writerVars, histVars>>

\* insert_all: _enqueue("predictions_all", rec)
StoreAllCheck == EnqueueCheck("call_all", "store_put_all", "store_ret")

StoreAllPut == EnqueuePut("store_put_all", "predictions_all", "store_ret", "store_ret")

\* insert_actual: _enqueue("predictions_actual", rec)
StoreActualCheck == EnqueueCheck("call_actual", "store_put_actual", "store_ret")

StoreActualPut == EnqueuePut("store_put_actual", "predictions_actual", "store_ret", "store_ret")

\* the insert call has returned
StoreReturn ==
    /\ cbPc = "store_ret"
    /\ emitted' = emitted + 1
    /\ ndropped' = IF inserted THEN ndropped ELSE ndropped + 1
    /\ cbPc' = "caller"
    /\ rec' = NoRec
    /\ UNCHANGED <<confVars, replayVars, enrichVars, pureVars, frame, cacheVars, storeVars, db, connected,
                   mainPc, ins_all, ins_actual, inserted, writerVars, histVars>>

\* close has returned and the closing thread calls close again
StoreCloseAgain ==
    /\ mainPc = "done"
    /\ mainPc' = "close"
    /\ UNCHANGED <<confVars, auxVars, frame, cacheVars, storeVars, db, connected,
                   cbVars, writerVars, histVars>>

\* self._q.get(timeout=0.5) raises Empty: no item arrived within the timeout
WriterTimeout ==
    /\ writerPc = "get"
    /\ q = <<>>
    /\ writerPc' = "empty"
    /\ UNCHANGED <<confVars, auxVars, frame, cacheVars, storeVars, db, connected, mainPc, cbVars, item, histVars>>

\* except Empty: if self._stop.is_set(): break; continue
WriterCheckStop ==
    /\ writerPc = "empty"
    /\ writerPc' = IF stop THEN "exited" ELSE "get"
    /\ UNCHANGED <<confVars, auxVars, frame, cacheVars, storeVars, db, connected, mainPc, cbVars, item, histVars>>

NextStore ==
    \/ StoreCall
    \/ StoreAllCheck
    \/ StoreAllPut
    \/ StoreActualCheck
    \/ StoreActualPut
    \/ StoreReturn
    \/ WriterGet
    \/ WriterTimeout
    \/ WriterCheckStop
    \/ WriterInsert
    \/ CloseBegin
    \/ CloseDrain
    \/ CloseSetStop
    \/ ClosePutSentinel
    \/ CloseJoin
    \/ StoreCloseAgain

SpecStore == InitStore /\ [][NextStore]_vars

\* ------------------------------------------------------ time utilities
\* Timestamps are minutes since 00:00 of Days[1]; clock times are minutes
\* of the day.  Seconds are left out: every threshold of the utilities is a
\* whole number of minutes.
\* service dates, as ISO text; SQLite compares them as text, which for ISO
\* dates is the order of the calendar
Days == <<"2025-04-09", "2025-04-10", "2025-04-11">>

DayNo(d) == CHOOSE i \in 1..Len(Days) : Days[i] = d

\* Python None where a time, a timestamp or a number of minutes is expected
NoDt == -1000000

\* minutes in a day (timedelta(days=1), the 1440 of diff_minutes_wrap)
DayMinutes == 1440
\* combine_date_time_smart: rollover_threshold_hours, in minutes
rollover_threshold == 120
\* diff_minutes_wrap: the wrap threshold
WrapLimit == 1200

\* a Darwin time text "HH:MM" is the pair <<HH, MM>> of its two numbers,
\* None is the empty tuple
NoText == <<>>

\* parse_hms: the time of day, None for None and for numbers that are no
\* time of day (ValueError)
parse_hms(value) ==
    IF value = NoText THEN NoDt
    ELSE IF value[1] \in 0..23 /\ value[2] \in 0..59 THEN value[1] * 60 + value[2]
    ELSE NoDt

\* datetime.strptime(ssd, "%Y-%m-%d").date(), None on ValueError
strptime(ssd) ==
    IF \E i \in 1..Len(Days) : Days[i] = ssd THEN DayNo(ssd) - 1 ELSE NoDt

\* combine_date_time
combine_date_time(ssd, t) ==
    IF parse_hms(t) = NoDt THEN NoDt
    ELSE IF strptime(ssd) = NoDt THEN NoDt
    ELSE strptime(ssd) * DayMinutes + parse_hms(t)

\* a combine that never rolls over to the next day
combine_no_rollover(ssd, t, base_dt) == combine_date_time(ssd, t)

\* combine_date_time_smart
combine_date_time_smart(ssd, t, base_dt) ==
    LET dt == combine_date_time(ssd, t)
    IN  IF dt = NoDt THEN NoDt
        ELSE IF base_dt = NoDt THEN dt
        ELSE IF dt < base_dt /\ base_dt - dt > rollover_threshold THEN dt + DayMinutes
        ELSE dt

\* a difference that is never wrapped
diff_no_wrap(planned, actual) ==
    IF planned = NoDt \/ actual = NoDt THEN NoDt ELSE actual - planned

\* diff_minutes_wrap
diff_minutes_wrap(planned, actual) ==
    IF planned = NoDt \/ actual = NoDt THEN NoDt
    ELSE LET minutes == actual - planned
             m1 == IF minutes > WrapLimit THEN minutes - DayMinutes ELSE minutes
         IN  IF m1 < -WrapLimit THEN m1 + DayMinutes ELSE m1

\* every variable of the realtime pipeline and of the worker at rest, for
\* the specifications that examine one function call
AtRest ==
    /\ cacheMax = max_size
    /\ qMax = queue_maxsize
    /\ models = [p \in Pairs |-> "ok"]
    /\ audit = FALSE
    /\ od = <<>>
    /\ tick = 0
    /\ q = <<>>
    /\ unfinished = 0
    /\ stop = FALSE
    /\ closed = FALSE
    /\ db = EmptyDb
    /\ connected = FALSE
    /\ mainPc = "off"
    /\ cbPc = "idle"
    /\ rec = NoRec
    /\ ins_all = FALSE
    /\ ins_actual = FALSE
    /\ inserted = FALSE
    /\ writerPc = "get"
    /\ item = SENTINEL
    /\ pending = <<>>
    /\ ignored = {}
    /\ everSaved = {}
    /\ owed = -1
    /\ lru = <<>>
    /\ dropped = {}
    /\ nodrop = {}
    /\ frame = <<>>
    /\ emitted = 0
    /\ ndropped = 0
    /\ stream = <<>>
    /\ pos = 1
    /\ pass = 1
    /\ first = EmptyDb
    /\ EnrichOff

\* the function returns
Return(v) ==
    /\ fpc = "call"
    /\ fpc' = "done"
    /\ ret' = v
    /\ UNCHANGED <<arg, confVars, burstVars, replayVars, enrichVars, frame, cacheVars,
                   storeVars, db, connected, mainPc, cbVars, writerVars, histVars>>

\* clock times of interest: around midnight, around the 2 hour rollover
\* threshold and the 1200 minute wrap threshold, and a daytime arrival
ClockTimes ==
    {<<0, 0>>, <<0, 4>>, <<0, 10>>, <<1, 59>>, <<2, 0>>, <<2, 1>>, <<10, 12>>, <<10, 14>>,
     <<22, 0>>, <<23, 55>>, <<23, 58>>}

\* the timestamps on day 0 .. MaxDay at those clock times
DateTimes ==
    {d * DayMinutes + parse_hms(c) : d \in 0..MaxDay, c \in ClockTimes}

\* diff_minutes_wrap is called with two timestamps, either of which can be None
InitDiff ==
    /\ AtRest
    /\ fpc = "call"
    /\ arg \in [planned : DateTimes \cup {NoDt}, actual : DateTimes \cup {NoDt}]
    /\ ret = NoDt

CallDiff == Return(diff_minutes_wrap(arg.planned, arg.actual))

NextDiff == CallDiff

SpecDiff == InitDiff /\ [][NextDiff]_vars

\* combine_date_time_smart is called with a service date, a time text that
\* can be None or no time of day, and a base timestamp that can be None
InitCombine ==
    /\ AtRest
    /\ fpc = "call"
    /\ arg \in [ssd : {Days[1], Days[2], "10/04/2025"},
                t : ClockTimes \cup {NoText, <<24, 0>>},
                base_dt : DateTimes \cup {NoDt}]
    /\ ret = NoDt

CallCombine == Return(combine_date_time_smart(arg.ssd, arg.t, arg.base_dt))

NextCombine == CallCombine

SpecCombine == InitCombine /\ [][NextCombine]_vars

\* ---------------------------------------------- the in-progress filter
\* on_decoded passes dep_grace_after_now_mins=5, arr_grace_before_now_mins=2
dep_grace_after_now_mins == 5
arr_grace_before_now_mins == 2

\* the instants at which a frame is handled (datetime.now), as minutes since
\* 00:00 of Days[1]: in the morning, before midnight and after it
FilterNows ==
    {10 * 60 + 6, 10 * 60 + 13, 23 * 60 + 58, DayMinutes + 8, DayMinutes + 23}

\* the location of the second station with its pta and wta
Loc2(pta, wta) == [pta |-> pta, wta |-> wta]

\* an extracted segment as the filter sees it, ssd and planned_dep, with the
\* location of its second station.  Darwin gives clock times only: dep_day
\* says on which day after ssd the timetable has the departure at A (1 for
\* the calls a service makes after midnight), and no code reads it
FilterSegment(ssd, planned_dep, loc_second, dep_day) ==
    [ssd |-> ssd, planned_dep |-> planned_dep, loc_second |-> loc_second,
     dep_day |-> dep_day]

FilterSegments ==
    { FilterSegment(Days[1], <<10, 0>>, Loc2(<<10, 10>>, <<10, 9>>), 0),
      FilterSegment(Days[1], <<10, 0>>, Loc2(NoText, <<10, 10>>), 0),
      FilterSegment(Days[1], <<10, 0>>, Loc2(NoText, NoText), 0),
      FilterSegment(Days[1], <<10, 10>>, Loc2(<<10, 20>>, NoText), 0),
      FilterSegment(Days[1], NoText, Loc2(<<10, 10>>, NoText), 0),
      FilterSegment(None, <<10, 0>>, Loc2(<<10, 10>>, NoText), 0),
      FilterSegment(Days[1], <<23, 55>>, Loc2(<<0, 5>>, NoText), 0),
      FilterSegment(Days[1], <<0, 10>>, Loc2(<<0, 20>>, NoText), 1),
      FilterSegment(Days[2], <<0, 10>>, Loc2(<<0, 20>>, NoText), 0) }

\* the frames explored: up to MaxSegments segments in any order
MaxSegments == 2
FilterInputs ==
    UNION {[1..n -> FilterSegments] : n \in 0..MaxSegments}

\* on_decoded: s["planned_arr_second"] = loc_second.get("pta") or
\* loc_second.get("wta")
planned_arr_second(seg) ==
    IF seg.loc_second.pta # NoText THEN seg.loc_second.pta ELSE seg.loc_second.wta

\* _planned_dep_dt
_planned_dep_dt(seg) ==
    IF seg.ssd = None \/ seg.planned_dep = NoText THEN NoDt
    ELSE combine_date_time_smart(seg.ssd, seg.planned_dep, NoDt)

\* _planned_arr_dt, base being seg["_planned_dep_dt_for_filter"]
_planned_arr_dt(seg, base) ==
    IF seg.ssd = None \/ planned_arr_second(seg) = NoText THEN NoDt
    ELSE combine_date_time_smart(seg.ssd, planned_arr_second(seg), base)

\* filter_segments_by_now, mode "in_progress": whether the loop appends seg
InProgress(seg, now) ==
    LET dep_dt == _planned_dep_dt(seg)
    IN  IF dep_dt = NoDt THEN FALSE
        ELSE LET arr_dt == _planned_arr_dt(seg, dep_dt)
             IN  IF arr_dt = NoDt THEN FALSE
                 ELSE /\ dep_dt <= now + dep_grace_after_now_mins
                      /\ arr_dt >= now - arr_grace_before_now_mins

\* filter_segments_by_now, mode "in_progress"
filter_segments_by_now(segments, now) ==
    SelectSeq(segments, LAMBDA seg : InProgress(seg, now))

InitFilter ==
    /\ AtRest
    /\ fpc = "call"
    /\ arg \in [segments : FilterInputs, now : FilterNows]
    /\ ret = <<>>

\* on_decoded: segs = filter_segments_by_now(segs, now=now, ...)
CallFilter == Return(filter_segments_by_now(arg.segments, arg.now))

NextFilter == CallFilter

SpecFilter == InitFilter /\ [][NextFilter]_vars

\* ------------------------------------------------------ extract_segments
\* STATION_PAIRS, abridged to its first two pairs and its last pair
STATION_PAIRS ==
    << <<"WEYMTH", "UPWEY">>, <<"UPWEY", "DRCHS">>, <<"CLPHMJM", "WATRLMN">> >>

\* the stations of the pairs, in journey order
RouteStations == <<"WEYMTH", "UPWEY", "DRCHS", "CLPHMJM", "WATRLMN">>

\* the time keys of a forecast location
TimeKeys ==
    {"ptd", "wtd", "etd", "dep_et", "atd", "dep_at",
     "pta", "wta", "ata", "arr_at", "arr_et", "arr_wet"}

\* a forecast row of service R1 at tpl with the times given, the other time
\* keys being empty
ForecastRow(tpl, ssd, times) ==
    [k \in TimeKeys \cup {"tpl", "rid", "ssd"} |->
        IF k = "tpl" THEN tpl
        ELSE IF k = "rid" THEN "R1"
        ELSE IF k = "ssd" THEN ssd
        ELSE IF k \in DOMAIN times THEN times[k]
        ELSE NoText]

\* by_tpl.get(code) found nothing
NoRow == ForecastRow(None, None, [ptd |-> NoText])

\* _first_non_empty
RECURSIVE _first_non_empty(_, _)
_first_non_empty(loc, keys) ==
    IF keys = <<>> THEN NoText
    ELSE IF loc[Head(keys)] # NoText THEN loc[Head(keys)]
    ELSE _first_non_empty(loc, Tail(keys))

\* _build_tpl_index: tpl -> row, the last row of a tpl wins
_build_tpl_index(forecasts) ==
    [s \in {RouteStations[i] : i \in 1..Len(RouteStations)} |->
        LET at == {i \in 1..Len(forecasts) : forecasts[i].tpl = s}
        IN  IF at = {} THEN NoRow
            ELSE forecasts[CHOOSE i \in at : \A j \in at : j <= i]]

\* _schedule_endpoints: the tpl of the last OR row and of the last DT row
_schedule_endpoints(schedules) ==
    LET ors == {i \in 1..Len(schedules) :
                   schedules[i].tpl # None /\ schedules[i].type = "OR"}
        dts == {i \in 1..Len(schedules) :
                   schedules[i].tpl # None /\ schedules[i].type = "DT"}
        last(S) == CHOOSE i \in S : \A j \in S : j <= i
    IN  [origin |-> IF ors = {} THEN None ELSE schedules[last(ors)].tpl,
         dest |-> IF dts = {} THEN None ELSE schedules[last(dts)].tpl]

\* _rid_matches_station_pairs_direction: "True", "False", or "None" when an
\* endpoint is missing
_rid_matches_station_pairs_direction(schedules) ==
    LET required_origin == STATION_PAIRS[1][1]
        required_dest == STATION_PAIRS[Len(STATION_PAIRS)][2]
        e == _schedule_endpoints(schedules)
    IN  IF e.origin = None \/ e.dest = None THEN "None"
        ELSE IF e.origin = required_origin /\ e.dest = required_dest THEN "True"
        ELSE "False"

\* _is_reverse_by_vote: the loop from pair i on
RECURSIVE VoteFrom(_, _, _, _)
VoteFrom(by_tpl, i, forward_votes, reverse_votes) ==
    IF i > Len(STATION_PAIRS)
    THEN IF forward_votes + reverse_votes >= 2
         THEN reverse_votes > forward_votes
         ELSE FALSE
    ELSE LET a == by_tpl[STATION_PAIRS[i][1]]
             b == by_tpl[STATION_PAIRS[i][2]]
         IN  IF a = NoRow \/ b = NoRow
             THEN VoteFrom(by_tpl, i + 1, forward_votes, reverse_votes)
             ELSE LET dep_t == parse_hms(_first_non_empty(
                                   a, <<"ptd", "wtd", "dep_et", "dep_at">>))
                      arr_t == parse_hms(_first_non_empty(
                                   b, <<"pta", "wta", "arr_et", "arr_wet", "arr_at">>))
                      delta == IF arr_t - dep_t < -720
                               THEN arr_t - dep_t + 1440
                               ELSE arr_t - dep_t
                  IN  IF dep_t = NoDt \/ arr_t = NoDt
                      THEN VoteFrom(by_tpl, i + 1, forward_votes, reverse_votes)
                      ELSE IF delta < 0
                      THEN IF delta <= -10 THEN TRUE
                           ELSE VoteFrom(by_tpl, i + 1, forward_votes,
                                         reverse_votes + 1)
                      ELSE VoteFrom(by_tpl, i + 1, forward_votes + 1,
                                    reverse_votes)

\* a vote without the immediate reject: only the majority counts
vote_majority_only(by_tpl) ==
    LET voters == {i \in 1..Len(STATION_PAIRS) :
                      /\ by_tpl[STATION_PAIRS[i][1]] # NoRow
                      /\ by_tpl[STATION_PAIRS[i][2]] # NoRow
                      /\ parse_hms(_first_non_empty(by_tpl[STATION_PAIRS[i][1]],
                              <<"ptd", "wtd", "dep_et", "dep_at">>)) # NoDt
                      /\ parse_hms(_first_non_empty(by_tpl[STATION_PAIRS[i][2]],
                              <<"pta", "wta", "arr_et", "arr_wet", "arr_at">>)) # NoDt}
        d(i) == parse_hms(_first_non_empty(by_tpl[STATION_PAIRS[i][2]],
                              <<"pta", "wta", "arr_et", "arr_wet", "arr_at">>))
                - parse_hms(_first_non_empty(by_tpl[STATION_PAIRS[i][1]],
                              <<"ptd", "wtd", "dep_et", "dep_at">>))
        delta(i) == IF d(i) < -720 THEN d(i) + 1440 ELSE d(i)
        reverse == {i \in voters : delta(i) < 0}
    IN  /\ Cardinality(voters) >= 2
        /\ Cardinality(reverse) > Cardinality(voters \ reverse)

\* _is_reverse_by_vote
_is_reverse_by_vote(by_tpl) == VoteFrom(by_tpl, 1, 0, 0)

\* a departure source that puts the planned time first
DepSourcePlannedFirst(loc_a) ==
    LET planned == _first_non_empty(loc_a, <<"ptd", "wtd">>)
        confirmed == _first_non_empty(loc_a, <<"atd", "dep_at">>)
    IN  IF planned # NoText
        THEN [time |-> planned, kind |-> "estimate", has_actual_dep |-> FALSE,
              confirmed |-> confirmed]
        ELSE IF confirmed # NoText
        THEN [time |-> confirmed, kind |-> "actual", has_actual_dep |-> TRUE,
              confirmed |-> confirmed]
        ELSE [time |-> NoText, kind |-> "missing", has_actual_dep |-> FALSE,
              confirmed |-> confirmed]

\* extract_segments: the choice of the best operational departure time at A
DepSource(loc_a) ==
    LET actual_dep_confirmed == _first_non_empty(loc_a, <<"atd", "dep_at">>)
        dep_estimate == _first_non_empty(loc_a, <<"etd", "dep_et">>)
        dep_working == _first_non_empty(loc_a, <<"wtd">>)
        planned == _first_non_empty(loc_a, <<"ptd">>)
    IN  IF actual_dep_confirmed # NoText
        THEN [time |-> actual_dep_confirmed, kind |-> "actual",
              has_actual_dep |-> TRUE, confirmed |-> actual_dep_confirmed]
        ELSE IF dep_estimate # NoText
        THEN [time |-> dep_estimate, kind |-> "estimate",
              has_actual_dep |-> FALSE, confirmed |-> NoText]
        ELSE IF dep_working # NoText
        THEN [time |-> dep_working, kind |-> "estimate",
              has_actual_dep |-> FALSE, confirmed |-> NoText]
        ELSE [time |-> planned,
              kind |-> IF planned # NoText THEN "estimate" ELSE "missing",
              has_actual_dep |-> FALSE, confirmed |-> NoText]

\* a dwell delay that never uses the arrival delay
DwellIsDeparture(a_code, departure_delay_min, arrival_delay_min) ==
    departure_delay_min

\* extract_segments: the dwell delay
DwellDelay(a_code, departure_delay_min, arrival_delay_min) ==
    IF a_code = STATION_PAIRS[1][1] THEN departure_delay_min
    ELSE IF departure_delay_min # NoDt /\ arrival_delay_min # NoDt
         THEN departure_delay_min - arrival_delay_min
         ELSE NoDt

\* extract_segments: the record of one pair whose two locations are present
SegmentOf(rid, ssd, a_code, b_code, loc_a, loc_b) ==
    LET planned_dep == _first_non_empty(loc_a, <<"ptd", "wtd">>)
        src == DepSource(loc_a)
        planned_dep_dt ==
            IF ssd # None /\ planned_dep # NoText
            THEN combine_date_time_smart(ssd, planned_dep, NoDt) ELSE NoDt
        dep_pred_dt ==
            IF ssd # None /\ src.time # NoText /\ planned_dep_dt # NoDt
            THEN combine_date_time_smart(ssd, src.time, planned_dep_dt) ELSE NoDt
        departure_delay_min == diff_minutes_wrap(planned_dep_dt, dep_pred_dt)
        planned_arr_a == _first_non_empty(loc_a, <<"pta", "wta">>)
        actual_arr_confirmed == _first_non_empty(loc_a, <<"ata", "arr_at">>)
        arr_estimate == _first_non_empty(loc_a, <<"arr_et", "arr_wet">>)
        arr_time_for_dwell ==
            IF actual_arr_confirmed # NoText THEN actual_arr_confirmed
            ELSE arr_estimate
        planned_arr_a_dt ==
            IF ssd # None /\ planned_arr_a # NoText /\ planned_dep_dt # NoDt
            THEN combine_date_time_smart(ssd, planned_arr_a, planned_dep_dt)
            ELSE NoDt
        arr_dwell_dt ==
            IF ssd # None /\ arr_time_for_dwell # NoText /\ planned_dep_dt # NoDt
            THEN combine_date_time_smart(ssd, arr_time_for_dwell, planned_dep_dt)
            ELSE NoDt
        arrival_delay_min == diff_minutes_wrap(planned_arr_a_dt, arr_dwell_dt)
    IN  [rid |-> rid, ssd |-> ssd, first |-> a_code, second |-> b_code,
         planned_dep |-> planned_dep, planned_arr |-> planned_arr_a,
         dep_time_for_prediction |-> src.time,
         dep_time_kind |-> src.kind,
         has_actual_dep |-> src.has_actual_dep,
         actual_dep_confirmed |-> src.confirmed,
         departure_delay_min |-> departure_delay_min,
         arrival_delay_min |-> arrival_delay_min,
         dwell_delay_min |->
             DwellDelay(a_code, departure_delay_min, arrival_delay_min),
         loc_first |-> loc_a, loc_second |-> loc_b]

\* extract_segments: the loop over STATION_PAIRS from pair i on
RECURSIVE EmitFrom(_, _, _, _)
EmitFrom(by_tpl, rid, ssd, i) ==
    IF i > Len(STATION_PAIRS) THEN <<>>
    ELSE LET a_code == STATION_PAIRS[i][1]
             b_code == STATION_PAIRS[i][2]
         IN  IF by_tpl[a_code] = NoRow \/ by_tpl[b_code] = NoRow
             THEN EmitFrom(by_tpl, rid, ssd, i + 1)
             ELSE <<SegmentOf(rid, ssd, a_code, b_code,
                              by_tpl[a_code], by_tpl[b_code])>>
                  \o EmitFrom(by_tpl, rid, ssd, i + 1)

\* an extractor that consults the vote whatever the schedules say
extract_by_vote_only(forecasts, schedules) ==
    IF forecasts = <<>> THEN <<>>
    ELSE IF _is_reverse_by_vote(_build_tpl_index(forecasts)) THEN <<>>
    ELSE EmitFrom(_build_tpl_index(forecasts), forecasts[1].rid,
                  forecasts[1].ssd, 1)

\* extract_segments, with drop_wrong_direction set
extract_segments(forecasts, schedules) ==
    IF forecasts = <<>> THEN <<>>
    ELSE LET by_tpl == _build_tpl_index(forecasts)
             schedule_match == _rid_matches_station_pairs_direction(schedules)
         IN  IF schedule_match = "False" THEN <<>>
             ELSE IF schedule_match = "None" /\ _is_reverse_by_vote(by_tpl)
             THEN <<>>
             ELSE EmitFrom(by_tpl, forecasts[1].rid, forecasts[1].ssd, 1)

\* SegmentFeatureBuilder.build returned None
NoFeatures == [departure_delay |-> NoDt, dwell_delay |-> NoDt, hour_of_day |-> -1]

\* a builder that passes a missing dwell delay on
build_keeps_missing_dwell(segment) ==
    IF segment.ssd = None \/ segment.planned_dep = NoText THEN NoFeatures
    ELSE IF segment.departure_delay_min = NoDt THEN NoFeatures
    ELSE [departure_delay |-> segment.departure_delay_min,
          dwell_delay |-> segment.dwell_delay_min,
          hour_of_day |-> segment.planned_dep[1]]

\* SegmentFeatureBuilder.build: the delays and the hour of the anchor
build_features(segment) ==
    IF segment.ssd = None \/ segment.planned_dep = NoText THEN NoFeatures
    ELSE IF segment.departure_delay_min = NoDt THEN NoFeatures
    ELSE [departure_delay |-> segment.departure_delay_min,
          dwell_delay |-> IF segment.dwell_delay_min = NoDt THEN 0
                          ELSE segment.dwell_delay_min,
          hour_of_day |-> segment.planned_dep[1]]

\* -- the frames explored
\* the rows f gives to the stations from i on, in journey order
RECURSIVE RowsFrom(_, _)
RowsFrom(f, i) ==
    IF i > Len(RouteStations) THEN <<>>
    ELSE IF f[RouteStations[i]] = NoRow THEN RowsFrom(f, i + 1)
    ELSE <<f[RouteStations[i]]>> \o RowsFrom(f, i + 1)

\* a timetable that runs forward along the route
PlainTimes(s) ==
    CASE s = "WEYMTH" -> [ptd |-> <<9, 0>>]
      [] s = "UPWEY" -> [pta |-> <<9, 5>>, ptd |-> <<9, 6>>]
      [] s = "DRCHS" -> [pta |-> <<9, 15>>, ptd |-> <<9, 16>>]
      [] s = "CLPHMJM" -> [pta |-> <<11, 50>>, ptd |-> <<11, 51>>]
      [] OTHER -> [pta |-> <<12, 0>>]

RouteStationSet == {RouteStations[i] : i \in 1..Len(RouteStations)}

\* frames that report any subset of the stations with the plain timetable
SubsetForecasts ==
    { RowsFrom([s \in RouteStationSet |->
                   IF s \in S THEN ForecastRow(s, Days[1], PlainTimes(s))
                   ELSE NoRow], 1) : S \in SUBSET RouteStationSet }

\* departure at A and arrival at B of one pair, as clock times: none, 5
\* minutes forward, 3, 9 and 10 minutes backward, across midnight, and half a
\* day and a minute more than half a day backward
PairTimes ==
    { [dep |-> NoText, arr |-> NoText],
      [dep |-> <<12, 0>>, arr |-> <<12, 5>>],
      [dep |-> <<12, 0>>, arr |-> <<11, 57>>],
      [dep |-> <<12, 0>>, arr |-> <<11, 51>>],
      [dep |-> <<12, 0>>, arr |-> <<11, 50>>],
      [dep |-> <<23, 50>>, arr |-> <<0, 5>>],
      [dep |-> <<12, 0>>, arr |-> <<0, 0>>],
      [dep |-> <<12, 1>>, arr |-> <<0, 0>>] }

\* the row of station s when pair i has the times v[i]; the times sit in ptd
\* and pta, or (alt) in dep_at and arr_at
TimedRow(s, v, alt) ==
    LET dep == IF s = "WEYMTH" THEN v[1].dep
               ELSE IF s = "UPWEY" THEN v[2].dep
               ELSE IF s = "CLPHMJM" THEN v[3].dep
               ELSE NoText
        arr == IF s = "UPWEY" THEN v[1].arr
               ELSE IF s = "DRCHS" THEN v[2].arr
               ELSE IF s = "WATRLMN" THEN v[3].arr
               ELSE NoText
    IN  IF alt THEN ForecastRow(s, Days[1], [dep_at |-> dep, arr_at |-> arr])
        ELSE ForecastRow(s, Days[1], [ptd |-> dep, pta |-> arr])

\* frames that report every station, each pair with times of its own
TimedForecasts ==
    { RowsFrom([s \in RouteStationSet |-> TimedRow(s, v, alt)], 1) :
          v \in [1..Len(STATION_PAIRS) -> PairTimes], alt \in BOOLEAN }

\* a schedule row
ScheduleRow(tpl, type) == [tpl |-> tpl, type |-> type]

\* the schedules explored: none, the route, the route with a passing point
\* and an earlier OR row, the route reversed, a short working, one endpoint
\* only, an OR row without tpl
ScheduleInputs ==
    { <<>>,
      <<ScheduleRow("WEYMTH", "OR"), ScheduleRow("WATRLMN", "DT")>>,
      <<ScheduleRow("POOLE", "OR"), ScheduleRow("WEYMTH", "OR"),
        ScheduleRow("BOMO", "IP"), ScheduleRow("WATRLMN", "DT")>>,
      <<ScheduleRow("WATRLMN", "OR"), ScheduleRow("WEYMTH", "DT")>>,
      <<ScheduleRow("WEYMTH", "OR"), ScheduleRow("BOMO", "DT")>>,
      <<ScheduleRow("WEYMTH", "OR")>>,
      <<ScheduleRow(None, "OR"), ScheduleRow("WATRLMN", "DT")>> }

\* the departure keys of the origin, each absent or with a time of its own
DepKeyRows ==
    { ForecastRow("WEYMTH", Days[1],
                  [ptd |-> IF "ptd" \in K THEN <<9, 0>> ELSE NoText,
                   wtd |-> IF "wtd" \in K THEN <<9, 1>> ELSE NoText,
                   etd |-> IF "etd" \in K THEN <<9, 2>> ELSE NoText,
                   dep_et |-> IF "dep_et" \in K THEN <<9, 3>> ELSE NoText,
                   atd |-> IF "atd" \in K THEN <<9, 4>> ELSE NoText,
                   dep_at |-> IF "dep_at" \in K THEN <<9, 5>> ELSE NoText]) :
          K \in SUBSET {"ptd", "wtd", "etd", "dep_et", "atd", "dep_at"} }

\* frames of the first pair with every choice of departure keys at the origin
DepKeyForecasts ==
    { <<r, ForecastRow("UPWEY", Days[1], PlainTimes("UPWEY"))>> : r \in DepKeyRows }

\* frames of the first two pairs, with or without ssd, with the departure at
\* the origin confirmed or not, and at UPWEY planned and estimated arrival
\* and departure each absent, on time, late or early
DwellForecasts ==
    { << ForecastRow("WEYMTH", ssd, [ptd |-> o.ptd, atd |-> o.atd]),
         ForecastRow("UPWEY", ssd, [pta |-> u.pta, arr_et |-> u.arr_et,
                                    ptd |-> u.ptd, etd |-> u.etd]),
         ForecastRow("DRCHS", ssd, PlainTimes("DRCHS")) >> :
          ssd \in {Days[1], None},
          o \in [ptd : {NoText, <<9, 0>>}, atd : {NoText, <<9, 3>>}],
          u \in [pta : {NoText, <<9, 5>>}, arr_et : {NoText, <<9, 4>>, <<9, 7>>},
                 ptd : {NoText, <<9, 6>>}, etd : {NoText, <<9, 6>>, <<9, 10>>}] }

TheRoute == <<ScheduleRow("WEYMTH", "OR"), ScheduleRow("WATRLMN", "DT")>>

InitExtract ==
    /\ AtRest
    /\ fpc = "call"
    /\ arg \in [forecasts : SubsetForecasts \cup TimedForecasts,
                schedules : ScheduleInputs]
               \cup [forecasts : DepKeyForecasts \cup DwellForecasts,
                     schedules : {TheRoute}]
    /\ ret = <<>>

\* on_decoded: segs = extract_segments(forecasts, schedules, ...)
CallExtract == Return(extract_segments(arg.forecasts, arg.schedules))

\* on_decoded: feat = feature_builder.build(s) for the segments
BuildFeatures ==
    /\ fpc = "done"
    /\ DOMAIN arg = {"forecasts", "schedules"}
    /\ fpc' = "built"
    /\ ret' = [segs |-> ret,
               feats |-> [i \in 1..Len(ret) |-> build_features(ret[i])]]
    /\ UNCHANGED <<arg, confVars, burstVars, replayVars, enrichVars, frame,
                   cacheVars, storeVars, db, connected, mainPc, cbVars,
                   writerVars, histVars>>

NextExtract == CallExtract \/ BuildFeatures

SpecExtract == InitExtract /\ [][NextExtract]_vars

\* ------------------------------ frames with more than one TS element
\* rid and ssd of the TS elements of a frame: a rid names one service of
\* one day
Services == {<<"R1", Days[1]>>, <<"R2", Days[1]>>, <<"R3", Days[2]>>}

\* the stations the locations of a TS element are taken from
ServiceStations == <<"WEYMTH", "UPWEY", "DRCHS">>

\* the timetable of the second TS element of a frame
LaterTimes(s) ==
    CASE s = "WEYMTH" -> [ptd |-> <<10, 0>>]
      [] s = "UPWEY" -> [pta |-> <<10, 5>>, ptd |-> <<10, 6>>]
      [] OTHER -> [pta |-> <<10, 15>>, ptd |-> <<10, 16>>]

\* extract_attr: the item of a Location is a copy of base, the rid and ssd
\* of its TS element, updated with the attributes of the Location
ServiceRow(rid, ssd, tpl, times) == [ForecastRow(tpl, ssd, times) EXCEPT !.rid = rid]

\* extract_attr: the items of one TS element, for the stations of S in
\* document order
RECURSIVE TsRows(_, _, _, _, _)
TsRows(rid, ssd, S, later, i) ==
    IF i > Len(ServiceStations) THEN <<>>
    ELSE LET st == ServiceStations[i]
         IN  IF st \in S
             THEN <<ServiceRow(rid, ssd, st,
                               IF later THEN LaterTimes(st) ELSE PlainTimes(st))>>
                  \o TsRows(rid, ssd, S, later, i + 1)
             ELSE TsRows(rid, ssd, S, later, i + 1)

\* extract_attr: a frame of two TS elements, the items of the first
\* followed by those of the second; the second is an update of the same
\* service or belongs to another service
ServiceFrames ==
    { TsRows("R1", Days[1], S1, FALSE, 1) \o TsRows(ts2[1], ts2[2], S2, TRUE, 1) :
          S1 \in SUBSET {ServiceStations[i] : i \in 1..Len(ServiceStations)},
          S2 \in SUBSET {ServiceStations[i] : i \in 1..Len(ServiceStations)},
          ts2 \in Services }

InitServices ==
    /\ AtRest
    /\ fpc = "call"
    /\ arg \in [forecasts : ServiceFrames, schedules : {<<>>, TheRoute}]
    /\ ret = <<>>

SpecServices == InitServices /\ [][NextExtract]_vars

\* ------------------------------------------- the weighted ensemble
\* the sub-models a pair can name in the weights file
ModelNames == {"rf", "xgb"}

\* weights and predictions are floats; here whole numbers of tenths
WeightValues == {-1, 0, 1, 3}
PredValues == {-2, 0, 4}

\* predict_one returned None
NoPrediction == [present |-> FALSE, num |-> 0, den |-> 1]

\* the float num / den
Quotient(num, den) == [present |-> TRUE, num |-> num, den |-> den]

\* the sum of f over the keys in S
RECURSIVE SumOver(_, _)
SumOver(f, S) ==
    IF S = {} THEN 0
    ELSE LET k == CHOOSE x \in S : TRUE
         IN  f[k] + SumOver(f, S \ {k})

\* a predictor that returns None when the weights do not sum to more than 0
predict_one_or_none(weights, pair_key, preds) ==
    IF pair_key \notin DOMAIN weights THEN NoPrediction
    ELSE IF DOMAIN weights[pair_key] = {} THEN NoPrediction
    ELSE LET wdict == weights[pair_key]
             total_w == SumOver(wdict, DOMAIN wdict)
         IN  IF total_w > 0
             THEN Quotient(SumOver([m \in DOMAIN wdict |-> wdict[m] * preds[m]],
                                   DOMAIN wdict), total_w)
             ELSE NoPrediction

\* WeightedEnsemblePredictor.predict_one with the artifacts loaded, preds[m]
\* being float(pipe.predict(X_row)[0]) of sub-model m
predict_one_value(weights, pair_key, preds) ==
    IF pair_key \notin DOMAIN weights THEN NoPrediction
    ELSE IF DOMAIN weights[pair_key] = {} THEN NoPrediction
    ELSE LET wdict == weights[pair_key]
             weighted_pred == SumOver([m \in DOMAIN wdict |-> wdict[m] * preds[m]],
                                      DOMAIN wdict)
             total_w == SumOver(wdict, DOMAIN wdict)
         IN  IF total_w > 0 THEN Quotient(weighted_pred, total_w)
             ELSE Quotient(weighted_pred, 1)

\* the weights files explored: no entry for the pair, or an entry naming any
\* subset of the sub-models with any weights
WeightFiles ==
    { [k \in {} |-> <<>>] }
    \cup { [k \in {"SOTON_SOTPKWY"} |-> w] :
              w \in UNION {[S -> WeightValues] : S \in SUBSET ModelNames} }

InitPredict ==
    /\ AtRest
    /\ fpc = "call"
    /\ arg \in [weights : WeightFiles, pair_key : {"SOTON_SOTPKWY"},
                preds : [ModelNames -> PredValues]]
    /\ ret = NoPrediction

\* on_decoded: yhat = ensemble.predict_one(s["first"], s["second"], X)
CallPredict == Return(predict_one_value(arg.weights, arg.pair_key, arg.preds))

NextPredict == CallPredict

SpecPredict == InitPredict /\ [][NextPredict]_vars

\* ------------------------------------------------- parse_hms on text
\* a text is a sequence of characters
Digits == <<"0", "1", "2", "3", "4", "5", "6", "7", "8", "9">>
DigitValue(c) == (CHOOSE i \in 1..Len(Digits) : Digits[i] = c) - 1
IsDigit(c) == \E i \in 1..Len(Digits) : Digits[i] = c

\* parse_hms returned None
NoTime == [hour |-> -1, minute |-> -1, second |-> -1]

\* str.strip() for blanks
RECURSIVE StripLeft(_)
StripLeft(s) ==
    IF s # <<>> /\ Head(s) = " " THEN StripLeft(Tail(s)) ELSE s
RECURSIVE StripRight(_)
StripRight(s) ==
    IF s # <<>> /\ s[Len(s)] = " " THEN StripRight(SubSeq(s, 1, Len(s) - 1)) ELSE s
Strip(s) == StripRight(StripLeft(s))

\* s.split(":")
RECURSIVE Split(_, _)
Split(s, acc) ==
    IF s = <<>> THEN <<acc>>
    ELSE IF Head(s) = ":" THEN <<acc>> \o Split(Tail(s), <<>>)
    ELSE Split(Tail(s), Append(acc, Head(s)))

\* the number a run of digits spells
RECURSIVE NumberOf(_, _)
NumberOf(s, acc) ==
    IF s = <<>> THEN acc ELSE NumberOf(Tail(s), acc * 10 + DigitValue(Head(s)))

\* int(part): -1 stands for ValueError
IntOf(part) ==
    LET p == Strip(part)
    IN  IF p # <<>> /\ \A i \in 1..Len(p) : IsDigit(p[i]) THEN NumberOf(p, 0)
        ELSE -1

\* time(hour=, minute=, second=), NoTime standing for its ValueError
TimeOf(hh, mm, ss) ==
    IF hh \in 0..23 /\ mm \in 0..59 /\ ss \in 0..59
    THEN [hour |-> hh, minute |-> mm, second |-> ss]
    ELSE NoTime

\* a parser that also takes the four digits HHMM
parse_hms_with_hhmm(value) ==
    LET s == Strip(value)
        parts == Split(s, <<>>)
    IN  IF s = <<>> THEN NoTime
        ELSE IF Len(parts) = 1 /\ Len(s) = 4 /\ \A i \in 1..4 : IsDigit(s[i])
        THEN TimeOf(NumberOf(SubSeq(s, 1, 2), 0), NumberOf(SubSeq(s, 3, 4), 0), 0)
        ELSE IF Len(parts) = 2 THEN TimeOf(IntOf(parts[1]), IntOf(parts[2]), 0)
        ELSE IF Len(parts) = 3
        THEN TimeOf(IntOf(parts[1]), IntOf(parts[2]), IntOf(parts[3]))
        ELSE NoTime

\* parse_hms on the text value
parse_hms_text(value) ==
    LET s == Strip(value)
        parts == Split(s, <<>>)
    IN  IF s = <<>> THEN NoTime
        ELSE IF Len(parts) = 2 THEN TimeOf(IntOf(parts[1]), IntOf(parts[2]), 0)
        ELSE IF Len(parts) = 3
        THEN TimeOf(IntOf(parts[1]), IntOf(parts[2]), IntOf(parts[3]))
        ELSE NoTime

\* the texts explored: every text of up to MaxTextLen characters over a
\* small alphabet, and some longer ones with seconds
MaxTextLen == 5
TextAlphabet == {"0", "2", "5", ":", " ", "x"}
LongTexts ==
    { <<"0", "9", ":", "4", "7", ":", "3", "0">>,
      <<"2", "3", ":", "5", "9", ":", "5", "9">>,
      <<"0", "9", ":", "4", "7", ":", "6", "0">>,
      <<"2", "4", ":", "0", "0", ":", "0", "0">>,
      <<"0", "9", ":", "4", "7", ":", "3", "0", ":", "0">>,
      <<"0", "9", "4", "7", "3", "0">> }
ClockTexts ==
    UNION {[1..n -> TextAlphabet] : n \in 0..MaxTextLen} \cup LongTexts

InitParse ==
    /\ AtRest
    /\ fpc = "call"
    /\ arg \in [value : ClockTexts]
    /\ ret = NoTime

\* combine_date_time: tt = parse_hms(t)
CallParse == Return(parse_hms_text(arg.value))

NextParse == CallParse

SpecParse == InitParse /\ [][NextParse]_vars

\* ------------------------------------------- the main-journey flag (HSP)
\* CRSS, the CRS codes of the route stations (None where the station lookup
\* has none), for a route abridged to three stations
RouteCrsLists == { <<"WEY", "UPW", "DCH">>, <<"WEY", None, "DCH">> }

\* the "location" values of an HSP payload: route stations, a station off
\* the route, and a location without code
PayloadCrs == {"WEY", "UPW", "DCH", "BMH", ""}

MaxLocations == 4

\* _route_crs_set
_route_crs_set(crss) ==
    {crss[i] : i \in {j \in 1..Len(crss) : crss[j] # None /\ crss[j] # ""}}

\* a flag that is set as soon as one route station is among the locations
main_journey_if_any(crss, locs) ==
    IF \E i \in 1..Len(locs) : locs[i] \in _route_crs_set(crss) THEN 1 ELSE 0

\* extract_service_locations: is_main_journey
main_journey_flag(crss, locs) ==
    LET route_crs == _route_crs_set(crss)
        seen_crs == {locs[i] : i \in {j \in 1..Len(locs) : locs[j] # ""}}
    IN  IF route_crs # {} /\ route_crs \subseteq seen_crs THEN 1 ELSE 0

\* extract_service_locations: one row per location with a code, each a copy
\* of the service-level base
service_location_rows(crss, locs) ==
    LET keep == SelectSeq(locs, LAMBDA c : c # "")
    IN  [i \in 1..Len(keep) |->
            [tpl |-> keep[i], is_main_journey |-> main_journey_flag(crss, locs)]]

\* make_actual_arrival_record: int(hsp_loc.get("is_main_journey") or 0)
record_main_journey(hsp_loc) ==
    IF hsp_loc.is_main_journey = 0 THEN 0 ELSE hsp_loc.is_main_journey

InitJourney ==
    /\ AtRest
    /\ fpc = "call"
    /\ arg \in [crss : RouteCrsLists,
                locations : UNION {[1..n -> PayloadCrs] : n \in 0..MaxLocations}]
    /\ ret = <<>>

\* main(): hsp_rows = extract_service_locations(raw)
CallLocations == Return(service_location_rows(arg.crss, arg.locations))

\* main(): make_actual_arrival_record for the rows of the service
MakeRecords ==
    /\ fpc = "done"
    /\ DOMAIN arg = {"crss", "locations"}
    /\ fpc' = "recorded"
    /\ ret' = [rows |-> ret,
               recs |-> [i \in 1..Len(ret) |->
                            [hsp_location_crs |-> ret[i].tpl,
                             is_main_journey |-> record_main_journey(ret[i])]]]
    /\ UNCHANGED <<arg, confVars, burstVars, replayVars, enrichVars, frame,
                   cacheVars, storeVars, db, connected, mainPc, cbVars,
                   writerVars, histVars>>

NextJourney == CallLocations \/ MakeRecords

SpecJourney == InitJourney /\ [][NextJourney]_vars

\* --------------------------------------- the enrichment worker (HSP)
\* p.ssd < ? on TEXT columns
TextLess(a, b) == DayNo(a) < DayNo(b)

\* the keys of the rows the realtime pipeline has written to
\* predictions_actual, in rowid order: two pairs of one service and one pair
\* of another (the pipeline stores no row without ssd or planned_dep)
PaKeys ==
    << <<"R1", "SOTON", "SOTPKWY", "09:00">>,
       <<"R1", "SOTPKWY", "WNCHSTR", "09:00">>,
       <<"R2", "SOTON", "SOTPKWY", "09:00">> >>

PaRow(k, d) ==
    [rid |-> k[1], ssd |-> d, first |-> k[2], second |-> k[3], planned_dep |-> k[4]]

\* how a serviceDetails request can end: the three failures of
\* get_service_details_raw, a body without usable locations, or locations
HspOutcomes == {"transport_error", "non200", "invalid_json", "no_locations", "ok"}

\* an HSP location with its gbtt_pta and actual_ta; HSP writes a time as the
\* four digits HHMM, here the number they spell, and -1 is the empty text
HspLoc(pta, ata) == [present |-> TRUE, pta |-> pta, ata |-> ata]

\* the serviceDetails answers explored for one rid: the failures, or what
\* HSP knows of the two destination stations
HspResponses ==
    { [outcome |-> o, SOTPKWY |-> NoLoc, WNCHSTR |-> NoLoc] :
          o \in HspOutcomes \ {"ok"} }
    \cup
    { [outcome |-> "ok", SOTPKWY |-> HspLoc(1012, 1014), WNCHSTR |-> HspLoc(2355, 4)],
      [outcome |-> "ok", SOTPKWY |-> HspLoc(1012, 1014), WNCHSTR |-> HspLoc(1012, -1)],
      [outcome |-> "ok", SOTPKWY |-> HspLoc(1014, 1012), WNCHSTR |-> NoLoc],
      [outcome |-> "ok", SOTPKWY |-> HspLoc(-1, 1014), WNCHSTR |-> HspLoc(1012, 1014)] }

\* get_service_details_raw: whether a body is returned (None on a transport
\* error, a status other than 200 or invalid JSON)
get_service_details_raw(resp) ==
    resp.outcome \notin {"transport_error", "non200", "invalid_json"}

\* extract_service_locations followed by build_hsp_index_by_tiploc2: whether
\* there is any location row
extract_service_locations(resp) == resp.outcome = "ok"

\* make_actual_arrival_record returned None
NoArrival ==
    [rid |-> None, ssd |-> None, first |-> None, second |-> None,
     planned_dep |-> None, planned_arr |-> NoText, actual_arr |-> NoText,
     actual_arr_delay |-> NoDt]

\* a row of actual_arrivals_hsp left by an earlier run of the worker, for a
\* service that has no candidate row any more
EarlierArrival ==
    [rid |-> "R0", ssd |-> Days[1], first |-> "SOTON", second |-> "SOTPKWY",
     planned_dep |-> "09:00", planned_arr |-> <<9, 10>>, actual_arr |-> <<9, 12>>,
     actual_arr_delay |-> 2]

\* a conversion that keeps the four digits as they are, without the colon
_hhmm_unchanged(v) ==
    IF v < 0 THEN NoText ELSE <<0, v>>

\* _hhmm_to_hh_colon_mm on the four digits of HSP: "HHMM" becomes "HH:MM",
\* the empty text None
_hhmm_to_hh_colon_mm(v) ==
    IF v < 0 THEN NoText ELSE <<v \div 100, v % 100>>

\* the time texts of the stored rows, as pairs of numbers
TimeText(s) ==
    IF s = "09:00" THEN <<9, 0>>
    ELSE IF s = "09:03" THEN <<9, 3>>
    ELSE IF s = "09:04" THEN <<9, 4>>
    ELSE NoText

\* compute_actual_arrival_delay_min, with the time texts already normalised
compute_actual_arrival_delay_min(ssd, planned_s, actual_s, base_s) ==
    IF ssd = None \/ planned_s = NoText \/ actual_s = NoText THEN NoDt
    ELSE LET base_dt == IF base_s # NoText
                        THEN combine_date_time_smart(ssd, base_s, NoDt) ELSE NoDt
             planned_dt == combine_date_time_smart(ssd, planned_s, base_dt)
             actual_dt == combine_date_time_smart(ssd, actual_s, planned_dt)
         IN  diff_minutes_wrap(planned_dt, actual_dt)

\* _clean_str: None for None and for text that is empty once stripped
_clean_str(v) == IF v = None \/ v = "" THEN None ELSE v

\* the NOT EXISTS subquery: a row of actual_arrivals_hsp with the same rid,
\* first and second and a null-equal planned_dep
Matched(tbl, p) ==
    \E i \in 1..Len(tbl) :
        /\ tbl[i].rid = p.rid
        /\ tbl[i].first = p.first
        /\ tbl[i].second = p.second
        /\ \/ tbl[i].planned_dep = None /\ p.planned_dep = None
           \/ (tbl[i].planned_dep # None /\ p.planned_dep # None
               /\ tbl[i].planned_dep = p.planned_dep)

\* a WHERE clause without the NOT EXISTS subquery
IsCandidateAnyRow(tbl, p, before) ==
    /\ p.ssd # None
    /\ TextLess(p.ssd, before)

\* the WHERE clause of _fetch_candidate_predictions
IsCandidate(tbl, p, before) ==
    /\ p.ssd # None
    /\ TextLess(p.ssd, before)
    /\ ~Matched(tbl, p)

\* rowids of the rows of predictions_actual the WHERE clause keeps
Qualifying(tbl) == {i \in 1..Len(pa) : IsCandidate(tbl, pa[i], before_date)}

Min(a, b) == IF a < b THEN a ELSE b

\* ORDER BY p.ssd ASC LIMIT ?: the possible results, as sequences of rowids.
\* The order among rows of equal ssd is not specified by SQL
_fetch_candidate_predictions(tbl) ==
    LET Q == Qualifying(tbl)
        n == Min(limit_rows, Cardinality(Q))
    IN  { s \in [1..n -> Q] :
            /\ \A i, j \in 1..n : i < j =>
                  /\ s[i] # s[j]
                  /\ ~TextLess(pa[s[j]].ssd, pa[s[i]].ssd)
            /\ \A k \in Q \ {s[i] : i \in 1..n} :
                  \A i \in 1..n : ~TextLess(pa[k].ssd, pa[s[i]].ssd) }

\* the keys of by_rid, in the order the dict received them
RECURSIVE RidOrder(_)
RidOrder(rows) ==
    IF rows = <<>> THEN <<>>
    ELSE LET r == rows[Len(rows)].rid
             before == RidOrder(SubSeq(rows, 1, Len(rows) - 1))
         IN  IF \E i \in 1..Len(before) : before[i] = r THEN before
             ELSE Append(before, r)

\* make_actual_arrival_record: None, or the record for a prediction row
make_actual_arrival_record(pred_row, hsp_by_tiploc2) ==
    IF \/ _clean_str(pred_row.rid) = None
       \/ _clean_str(pred_row.first) = None
       \/ _clean_str(pred_row.second) = None
    THEN NoArrival
    ELSE IF ~hsp_by_tiploc2[pred_row.second].present THEN NoArrival
    ELSE LET hsp_loc == hsp_by_tiploc2[pred_row.second]
             planned_arr == _hhmm_to_hh_colon_mm(hsp_loc.pta)
             actual_arr == _hhmm_to_hh_colon_mm(hsp_loc.ata)
         IN  IF planned_arr = NoText \/ actual_arr = NoText THEN NoArrival
             ELSE [rid |-> _clean_str(pred_row.rid),
                   ssd |-> _clean_str(pred_row.ssd),
                   first |-> _clean_str(pred_row.first),
                   second |-> _clean_str(pred_row.second),
                   planned_dep |-> _clean_str(pred_row.planned_dep),
                   planned_arr |-> planned_arr,
                   actual_arr |-> actual_arr,
                   actual_arr_delay |->
                       compute_actual_arrival_delay_min(
                           _clean_str(pred_row.ssd), planned_arr, actual_arr,
                           TimeText(_clean_str(pred_row.planned_dep)))]

\* the UNIQUE(rid, first, second, planned_dep) conflict of SQLite: NULLs
\* are distinct from each other
HspConflict(a, b) ==
    /\ a.rid = b.rid
    /\ a.first = b.first
    /\ a.second = b.second
    /\ a.planned_dep # None
    /\ a.planned_dep = b.planned_dep

\* upsert_actual_arrival: INSERT ... ON CONFLICT(rid, first, second,
\* planned_dep) DO UPDATE SET the other columns
upsert_actual_arrival(tbl, r) ==
    IF \E i \in 1..Len(tbl) : HspConflict(tbl[i], r)
    THEN [i \in 1..Len(tbl) |-> IF HspConflict(tbl[i], r) THEN r ELSE tbl[i]]
    ELSE Append(tbl, r)

\* a loop over by_rid[rid] that writes in dry_run mode too
RECURSIVE UpsertRowsAlways(_, _, _)
UpsertRowsAlways(tbl, rows, resp) ==
    IF rows = <<>> THEN tbl
    ELSE LET r == make_actual_arrival_record(Head(rows), resp)
         IN  IF r = NoArrival
             THEN UpsertRowsAlways(tbl, Tail(rows), resp)
             ELSE UpsertRowsAlways(upsert_actual_arrival(tbl, r), Tail(rows), resp)

\* main(): the loop over by_rid[rid] for one rid that HSP answered
RECURSIVE UpsertRows(_, _, _)
UpsertRows(tbl, rows, resp) ==
    IF rows = <<>> THEN tbl
    ELSE LET r == make_actual_arrival_record(Head(rows), resp)
         IN  IF r = NoArrival \/ dry_run
             THEN UpsertRows(tbl, Tail(rows), resp)
             ELSE UpsertRows(upsert_actual_arrival(tbl, r), Tail(rows), resp)

\* main(): which counter the loop over by_rid[rid] raises for a row
RowCounter(pred_row, resp) ==
    IF make_actual_arrival_record(pred_row, resp) = NoArrival
    THEN IF pred_row.second = None \/ ~resp[pred_row.second].present
         THEN "skipped_no_match"
         ELSE "skipped_no_times"
    ELSE "written"

\* how many rows of the group raise counter c
Counted(rows, resp, c) ==
    Cardinality({i \in 1..Len(rows) : RowCounter(rows[i], resp) = c})

\* a skip that counts the rid once instead of its rows
SkipGroupOnce(count, group) == count + 1

\* skipped_no_hsp += len(by_rid[rid])
SkipGroup(count, group) == count + Len(group)

\* the worker is about to run on a database holding the three prediction
\* rows and no enrichment yet
InitEnrich ==
    /\ cacheMax = max_size
    /\ qMax = queue_maxsize
    /\ models = [p \in Pairs |-> "ok"]
    /\ audit = FALSE
    /\ od = <<>>
    /\ tick = 0
    /\ q = <<>>
    /\ unfinished = 0
    /\ stop = FALSE
    /\ closed = FALSE
    /\ db = EmptyDb
    /\ connected = FALSE
    /\ mainPc = "enrich"
    /\ cbPc = "idle"
    /\ rec = NoRec
    /\ ins_all = FALSE
    /\ ins_actual = FALSE
    /\ inserted = FALSE
    /\ writerPc = "get"
    /\ item = SENTINEL
    /\ pending = <<>>
    /\ ignored = {}
    /\ everSaved = {}
    /\ owed = -1
    /\ lru = <<>>
    /\ dropped = {}
    /\ nodrop = {}
    /\ frame = <<>>
    /\ emitted = 0
    /\ ndropped = 0
    /\ stream = <<>>
    /\ pos = 1
    /\ pass = 1
    /\ first = EmptyDb
    /\ pa \in {[i \in 1..Len(PaKeys) |-> PaRow(PaKeys[i], d[i])] :
                  d \in [1..Len(PaKeys) -> {Days[1], Days[2]}]}
    /\ hspResp \in [EnrichRids -> HspResponses]
    /\ before_date \in {Days[i] : i \in 1..Len(Days)}
    /\ limit_rows \in 1..MaxLimitRows
    /\ max_rids \in 1..MaxMaxRids
    /\ dry_run \in BOOLEAN
    /\ aa \in {<<>>, <<EarlierArrival>>}
    /\ epc = "start"
    /\ run = 1
    /\ cand = <<>>
    /\ work = <<>>
    /\ once = <<>>
    /\ truncated = FALSE
    /\ written = 0
    /\ skipped_no_hsp = 0
    /\ skipped_no_match = 0
    /\ skipped_no_times = 0
    /\ PureOff

realtimeVars ==
    <<confVars, burstVars, replayVars, pureVars, frame, cacheVars, storeVars, db, connected,
      mainPc, cbVars, writerVars, histVars>>

\* main(): fetch the candidates, group them by rid and keep the first
\* max_rids rids; return at once when there is no candidate
EnrichFetch ==
    /\ epc = "start"
    /\ \E s \in _fetch_candidate_predictions(aa) :
          LET rows == [i \in 1..Len(s) |-> pa[s[i]]]
              rids == RidOrder(rows)
          IN  /\ cand' = rows
              /\ work' = SubSeq(rids, 1, Min(max_rids, Len(rids)))
              /\ epc' = IF rows = <<>> THEN "done" ELSE "loop"
              /\ once' = IF rows = <<>> /\ run = 1 THEN aa ELSE once
              /\ truncated' =
                    IF run = 1
                    THEN \/ Cardinality(Qualifying(aa)) > limit_rows
                         \/ Len(rids) > max_rids
                    ELSE truncated
    /\ written' = 0
    /\ skipped_no_hsp' = 0
    /\ skipped_no_match' = 0
    /\ skipped_no_times' = 0
    /\ UNCHANGED <<realtimeVars, pa, hspResp, before_date, limit_rows, max_rids,
                   dry_run, aa, run>>

\* main(): one turn of the loop over rids
EnrichRid ==
    /\ epc = "loop"
    /\ work # <<>>
    /\ LET rid == Head(work)
           rows == SelectSeq(cand, LAMBDA r : r.rid = rid)
           resp == hspResp[rid]
       IN  IF ~get_service_details_raw(resp) \/ ~extract_service_locations(resp)
           THEN /\ skipped_no_hsp' = SkipGroup(skipped_no_hsp, rows)
                /\ UNCHANGED <<aa, written, skipped_no_match, skipped_no_times>>
           ELSE /\ aa' = UpsertRows(aa, rows, resp)
                /\ written' = written + Counted(rows, resp, "written")
                /\ skipped_no_match' =
                       skipped_no_match + Counted(rows, resp, "skipped_no_match")
                /\ skipped_no_times' =
                       skipped_no_times + Counted(rows, resp, "skipped_no_times")
                /\ UNCHANGED skipped_no_hsp
    /\ work' = Tail(work)
    /\ UNCHANGED <<realtimeVars, pa, hspResp, before_date, limit_rows, max_rids,
                   dry_run, epc, run, cand, once, truncated>>

\* main(): the loop is over, commit and close
EnrichCommit ==
    /\ epc = "loop"
    /\ work = <<>>
    /\ epc' = "done"
    /\ once' = IF run = 1 THEN aa ELSE once
    /\ UNCHANGED <<realtimeVars, pa, hspResp, before_date, limit_rows, max_rids,
                   dry_run, aa, run, cand, work, truncated, counterVars>>

\* the worker is run a second time on the same database, with the same
\* arguments and the same HSP answers
EnrichAgain ==
    /\ epc = "done"
    /\ run = 1
    /\ run' = 2
    /\ epc' = "start"
    /\ cand' = <<>>
    /\ UNCHANGED <<realtimeVars, pa, hspResp, before_date, limit_rows, max_rids,
                   dry_run, aa, work, once, truncated, counterVars>>

NextEnrich ==
    \/ EnrichFetch
    \/ EnrichRid
    \/ EnrichCommit
    \/ EnrichAgain

SpecEnrich == InitEnrich /\ [][NextEnrich]_vars

\* ------------------------------------------------------------ properties
\* every seg_id an extracted segment can carry
SegIds == {SegId(s) : s \in Segments}

\* indices of the rows of a table stored under a seg_id
RowsFor(tbl, seg_id) == {i \in 1..Len(tbl) : UniqueKey(tbl[i]) = seg_id}

\* the cache holds an entry for seg_id whose actual_saved is true
Saved(cache, seg_id) ==
    InCache(cache, seg_id) /\ cache[IndexOf(cache, seg_id)].actual_saved

\* the items of the queue other than the sentinel, in queue order
QueuedRecords == SelectSeq(q, LAMBDA x : x.table # None)

\* the callback thread takes the dispatch decision for a surviving segment
Dispatches == cbPc = "idle" /\ cbPc' = "insert_all"

\* the callback thread completes an _enqueue call at its closed test
EnqueueReturnsAtCheck ==
    /\ \/ cbPc = "insert_all" /\ ins_all
       \/ cbPc = "insert_actual"
    /\ cbPc' \notin {cbPc, "put_all", "put_actual"}

\* the callback thread completes an _enqueue call at its put
EnqueueReturnsAtPut ==
    /\ cbPc \in {"put_all", "put_actual"}
    /\ cbPc' # cbPc

\* the queue item the current _enqueue call is about
CallItem ==
    [table |-> IF cbPc \in {"insert_all", "put_all"}
               THEN "predictions_all" ELSE "predictions_actual",
     rec |-> rec]

\* the main thread is inside close() or past it
CloseStarted == mainPc \in {"close", "drain", "set_stop", "put_sentinel", "join", "done"}

\* the writer thread has ended
WriterEnded == writerPc \in {"exited", "died"}

\* C1: after any sequence of frames, replays, dropped enqueues and cache
\* evictions, predictions_all holds at most one row and predictions_actual
\* holds at most one row for every seg_id.
C1_AtMostOneRowPerSegId ==
    \A t \in TableNames : \A k \in SegIds : Cardinality(RowsFor(db[t], k)) <= 1

\* C1 witness: the writer has inserted a seg_id into a table that already
\* held it (a replay), the table holds one row for it, and the cache has
\* evicted the seg_id
C1_Witness ==
    \E t \in TableNames : \E k \in SegIds :
        /\ <<t, k>> \in ignored
        /\ Cardinality(RowsFor(db[t], k)) = 1
        /\ ~InCache(od, k)

\* C2: every record enqueued to predictions_actual has has_actual_dep = true
\* at the moment of enqueue, so every row of predictions_actual comes from a
\* snapshot with a confirmed actual departure, and no later frame creates a
\* second row for the seg_id.
C2_ActualRowsAreConfirmed ==
    /\ cbPc \in {"put_actual", "mark"} => rec.has_actual_dep
    /\ \A i \in 1..Len(q) : q[i].table = "predictions_actual" => q[i].rec.has_actual_dep
    /\ (writerPc = "insert" /\ item.table = "predictions_actual") => item.rec.has_actual_dep
    /\ \A i \in 1..Len(db.predictions_actual) : db.predictions_actual[i].has_actual_dep
    /\ \A i, j \in 1..Len(db.predictions_actual) :
          UniqueKey(db.predictions_actual[i]) = UniqueKey(db.predictions_actual[j]) => i = j

\* C2 witness: a later frame of a seg_id that has its row in
\* predictions_actual was enqueued and inserted again, and a further one is
\* being enqueued
C2_Witness ==
    /\ cbPc = "put_actual"
    /\ <<"predictions_actual", UniqueKey(rec)>> \in ignored
    /\ Cardinality(RowsFor(db.predictions_actual, UniqueKey(rec))) = 1

\* C3 (as amended): actual_saved of a seg_id becomes true only in the step
\* that follows a successful insert_actual for that seg_id, and while the
\* entry stays in the cache it remains true across further touch calls
\* (a step that leaves the cache alone changes no flag).
C3_SavedAfterSuccessAndKeptWhileCached ==
    [][od' # od =>
          \A k \in SegIds :
             /\ (Saved(od', k) /\ ~Saved(od, k)) =>
                   (cbPc = "mark" /\ inserted /\ UniqueKey(rec) = k)
             /\ (Saved(od, k) /\ InCache(od', k)) => Saved(od', k)]_vars

\* C3 witness: an entry with actual_saved true has been touched again (its
\* last_seen_order is the current tick, later than the marking) and is still
\* saved
C3_Witness ==
    \E k \in SegIds :
        /\ Saved(od, k)
        /\ cbPc = "insert_all"
        /\ UniqueKey(rec) = k
        /\ od[IndexOf(od, k)].last_seen_order = tick

\* C3 (as stated): actual_saved becomes true only after a successful
\* insert_actual, and once it has been true for a seg_id it is never
\* observed false again for that seg_id.
C3_SavedNeverObservedFalseAgain ==
    [][\A k \in SegIds :
          /\ (Saved(od', k) /\ ~Saved(od, k)) =>
                (cbPc = "mark" /\ inserted /\ UniqueKey(rec) = k)
          /\ (k \in everSaved' /\ InCache(od', k)) => Saved(od', k)]_vars

\* C4: a surviving segment is enqueued to predictions_all iff the cache held
\* no previous (dep_time, dep_time_kind) for the seg_id or the previous pair
\* differs from the current one.
C4_InsertAllIffPairIsNew ==
    [][Dispatches =>
          LET k == UniqueKey(rec')
              i == IndexOf(od, k)
          IN  ins_all' <=> \/ i = 0
                           \/ od[i].last_dep_time # rec'.dep_time
                           \/ od[i].last_kind # rec'.dep_time_kind]_vars

\* C5: a segment is enqueued to predictions_actual iff it has has_actual =
\* true and the cache's actual_saved for the seg_id, read before the touch,
\* is false.
C5_InsertActualIffNotYetSaved ==
    [][Dispatches =>
          (ins_actual' <=> (rec'.has_actual_dep /\ ~Saved(od, UniqueKey(rec'))))]_vars

\* C6 (as amended): insert_all and insert_actual never block; a call made
\* after close() has set the closed flag returns False and leaves the queue
\* unchanged; otherwise, when the queue is full the call returns False and
\* the queue is unchanged, and when there is room it returns True and the
\* record is appended.
C6_EnqueueNonBlockingUnlessClosed ==
    [][/\ cbPc # "idle" => ENABLED CallbackStep
       /\ EnqueueReturnsAtCheck => (closed /\ ~inserted' /\ q' = q)
       /\ (EnqueueReturnsAtPut /\ Len(q) >= queue_maxsize) => (~inserted' /\ q' = q)
       /\ (EnqueueReturnsAtPut /\ Len(q) < queue_maxsize) =>
             (inserted' /\ q' = Append(q, CallItem))]_vars

\* C6 witness: the store is open, the queue is full, and the segment's
\* insert_actual has just returned False after its insert_all was accepted
C6_Witness ==
    /\ ~closed
    /\ Len(q) = queue_maxsize
    /\ cbPc = "idle"
    /\ ~inserted
    /\ q[Len(q)].table = "predictions_all"
    /\ q[Len(q)].rec.has_actual_dep
    /\ InCache(od, UniqueKey(q[Len(q)].rec))
    /\ od[IndexOf(od, UniqueKey(q[Len(q)].rec))].last_seen_order = tick

\* C6 (as stated): when the queue is full the call returns False and the
\* queue is unchanged; when there is room the call returns True and the
\* record is appended.
C6_EnqueueTrueWheneverRoom ==
    [][(EnqueueReturnsAtCheck \/ EnqueueReturnsAtPut) =>
          IF Len(q) >= queue_maxsize
          THEN ~inserted' /\ q' = q
          ELSE inserted' /\ q' = Append(q, CallItem)]_vars

\* C7: the writer applies accepted records in exactly the order in which the
\* callback enqueued them, across both tables: the record being inserted is
\* the oldest accepted record not yet inserted, and the queue holds the
\* others in the order of their acceptance.
C7_AppliedInEnqueueOrder ==
    pending = (IF writerPc = "insert" THEN <<item>> ELSE <<>>) \o QueuedRecords

\* C7 witness: with one record committed, the writer is inserting the next
\* while two later ones, of both tables and of another seg_id, are queued
C7_Witness ==
    /\ writerPc = "insert"
    /\ Len(db.predictions_all) = 1
    /\ Len(pending) = 3
    /\ pending[2].table # pending[3].table
    /\ UniqueKey(pending[3].rec) # UniqueKey(pending[1].rec)

\* C8: close(drain=True) drains cleanly: once the writer thread has ended,
\* every record whose enqueue returned True before close was called has been
\* inserted and committed.
C8_AcceptedBeforeCloseIsWritten ==
    (owed >= 0 /\ WriterEnded) => owed = 0

\* C9: close(drain=True, join_timeout) always returns: while the main
\* thread is inside close and the writer thread makes no further progress,
\* the main thread can still take its next step.
C9_CloseCanAlwaysProceed ==
    (CloseStarted /\ mainPc # "done" /\ WriterEnded) => ENABLED MainStep

\* C10: on every cancellation path the transport is disconnected before
\* close is called, so no callback runs once close has started.
C10_DisconnectedBeforeClose ==
    CloseStarted => (~connected /\ cbPc = "idle")

\* C11: a store I/O error while inserting one record does not stop the
\* writer: the writer thread is never ended by an insert and goes on to
\* dequeue the records queued after the failing one.
C11_WriterSurvivesInsertError ==
    writerPc # "died"

\* the row a table holds for a seg_id (only used where there is exactly one)
RowOf(tbl, seg_id) == tbl[CHOOSE i \in 1..Len(tbl) : UniqueKey(tbl[i]) = seg_id]

\* the record a run without queue overflow stores for a table and seg_id
NoDropRow(t, seg_id) ==
    (CHOOSE x \in nodrop : x[1] = t /\ UniqueKey(x[2]) = seg_id)[2]

ActualEnqueueFails ==
    /\ cbPc \in {"insert_actual", "put_actual"}
    /\ cbPc' \notin {cbPc, "put_actual"}
    /\ ~inserted'

\* C15: a dropped enqueue to predictions_actual does not mark the seg_id:
\* the cache is left as it is, so actual_saved stays false; the next
\* snapshot of the seg_id with has_actual = true is enqueued to
\* predictions_actual again; and predictions_actual never holds more than
\* one row for a seg_id.
C15_DroppedActualIsRetried ==
    [][/\ ActualEnqueueFails => (od' = od /\ cbPc' = "idle")
       /\ (Dispatches /\ rec'.has_actual_dep /\ ~Saved(od, UniqueKey(rec'))) =>
             ins_actual'
       /\ \A k \in SegIds :
             Cardinality(RowsFor(db'.predictions_actual, k)) <= 1]_vars

\* C15 witness: an enqueue to predictions_actual was dropped for the seg_id,
\* its actual_saved is false, and a later has_actual snapshot of it is being
\* enqueued to predictions_actual again
C15_Witness ==
    /\ cbPc = "put_actual"
    /\ <<"predictions_actual", UniqueKey(rec)>> \in dropped
    /\ rec.has_actual_dep
    /\ InCache(od, UniqueKey(rec))
    /\ ~Saved(od, UniqueKey(rec))
    /\ UniqueKey(rec) \notin everSaved
    /\ Len(q) < qMax

\* C16: the first snapshot per key wins: a step never changes or removes a
\* row a table already holds, and a row is added only for a seg_id the table
\* does not hold yet.
C16_FirstSnapshotWins ==
    [][\A t \in TableNames :
          /\ Len(db'[t]) >= Len(db[t])
          /\ \A i \in 1..Len(db[t]) : db'[t][i] = db[t][i]
          /\ \A k \in SegIds :
                Cardinality(RowsFor(db'[t], k)) <= 1]_vars

\* C16 witness: an estimate snapshot was followed by an actual snapshot of
\* the same seg_id; predictions_all keeps the estimate row after the later
\* insert was ignored, and both tables hold exactly one row for the seg_id
C16_Witness ==
    \E k \in SegIds :
        /\ <<"predictions_all", k>> \in ignored
        /\ Cardinality(RowsFor(db.predictions_all, k)) = 1
        /\ RowOf(db.predictions_all, k).dep_time_kind = "estimate"
        /\ Cardinality(RowsFor(db.predictions_actual, k)) = 1
        /\ RowOf(db.predictions_actual, k).dep_time_kind = "actual"

\* C12: the cache is bounded with LRU eviction: after every touch it holds
\* exactly the min(max_size, N) most recently touched of the N distinct keys
\* touched so far, least recently touched first; so it never exceeds
\* max_size, the N - max_size least recently touched keys are gone, and a
\* re-touched key is the most recently used one.
C12_CacheHoldsMostRecentKeys ==
    LET n == Len(lru)
        m == IF n < cacheMax THEN n ELSE cacheMax
    IN  /\ Len(od) = m
        /\ \A i \in 1..m : od[i].seg_id = lru[n - m + i]

\* C12 witness: with max_size 2, four touches on three distinct keys (one
\* key was touched again): the cache holds the two keys touched last and
\* the least recently touched key is gone
C12_Witness ==
    /\ cacheMax = 2
    /\ tick = 4
    /\ Len(lru) = 3
    /\ Len(od) = 2
    /\ ~InCache(od, lru[1])
    /\ od[1].last_seen_order = 3
    /\ od[2].last_seen_order = 4

\* enqueues of the burst that returned True
BurstAccepted == emitted - ndropped

\* the burst is over and the writer has not taken any record from the queue
BurstUndisturbed ==
    /\ cbPc = "burst_done"
    /\ mainPc = "burst"
    /\ writerPc = "get"
    /\ Len(q) = BurstAccepted

IsPrefix(a, b) == Len(a) <= Len(b) /\ \A i \in 1..Len(a) : a[i] = b[i]

\* the first replay left a row for every table and seg_id it enqueued
FirstReplayComplete ==
    \A x \in nodrop : RowsFor(first[x[1]], UniqueKey(x[2])) # {}

\* the second replay has been delivered and written
SecondReplayDone ==
    /\ pass = 2
    /\ pos > Len(stream)
    /\ frame = <<>>
    /\ cbPc = "idle"
    /\ q = <<>>
    /\ writerPc = "get"

\* C17 (as amended): replaying the stream a second time over the tables of
\* the first replay never changes or removes a row the first replay wrote
\* and never gives a seg_id a second row; the tables stay identical when the
\* first replay left a row for every record it enqueued, and otherwise the
\* second replay can add rows for the seg_ids whose enqueues were dropped
\* or lost the first time.
C17_ReplayKeepsRowsOfFirstReplay ==
    pass = 2 =>
        /\ \A t \in TableNames :
              /\ IsPrefix(first[t], db[t])
              /\ \A k \in SegIds : Cardinality(RowsFor(db[t], k)) <= 1
        /\ FirstReplayComplete => db = first

\* C17 witness: the first replay wrote rows to both tables for everything
\* it enqueued, the second replay has been delivered and written with its
\* inserts ignored, and the tables are those of the first replay
C17_Witness ==
    /\ SecondReplayDone
    /\ FirstReplayComplete
    /\ Len(first.predictions_all) = 2
    /\ Len(first.predictions_actual) >= 1
    /\ db = first

\* C17 (as stated): the second replay leaves predictions_all and
\* predictions_actual identical to their contents after the first replay.
C17_SecondReplayChangesNothing ==
    pass = 2 => db = first

\* C18: a model load failure for the pair of one segment affects only that
\* segment: the remaining segments of the frame are still to be processed
\* by the orchestrator.
C18_LoadFailureSkipsOnlyThatSegment ==
    [][(/\ cbPc = "idle"
        /\ frame # <<>>
        /\ frame' # frame
        /\ Tail(frame) # <<>>
        /\ build(Head(frame))
        /\ predict_one(models, Head(frame)) = "raise") => frame' = Tail(frame)]_vars

\* the listener is handed a frame whose body does not decode
UndecodableFrameArrives ==
    /\ pos <= Len(stream)
    /\ pos' = pos + 1
    /\ ~stream[pos].body_ok

\* C19: a frame whose body fails to decompress or parse is dropped: the
\* decoded-handler is not called (no segment of it is processed), cache,
\* queue and tables are unchanged, the listener is back idle (no exception
\* escaped on_message), and whenever the listener is idle it takes the next
\* frame of the stream.
C19_UndecodableFrameIsDropped ==
    [][/\ UndecodableFrameArrives =>
             /\ frame' = <<>>
             /\ cbPc' = "idle"
             /\ od' = od /\ tick' = tick
             /\ q' = q /\ pending' = pending
             /\ db' = db
       /\ (cbPc = "idle" /\ frame = <<>> /\ pos <= Len(stream)) => ENABLED OnMessage]_vars

\* C19 witness: the first frame of the stream did not decode and was
\* dropped, and the frame after it has been processed and written
C19_Witness ==
    /\ pass = 1
    /\ ~stream[1].body_ok
    /\ stream[2].body_ok
    /\ pos = 3
    /\ tick >= 1
    /\ Len(db.predictions_all) >= 1

\* rows of actual_arrivals_hsp with the key of prediction row p
RowsMatching(tbl, p) ==
    {i \in 1..Len(tbl) : /\ tbl[i].rid = p.rid
                         /\ tbl[i].first = p.first
                         /\ tbl[i].second = p.second
                         /\ tbl[i].planned_dep = p.planned_dep}

\* C20 (as amended): actual_arrivals_hsp never holds two rows for one
\* (rid, first, second, planned_dep); every row a run selects as a candidate
\* has ssd before before_date and had no matching row when the run started;
\* a second run never changes a row of the first; and the second run leaves
\* the table as the first run left it when the first run was not cut short
\* by limit_rows or max_rids (otherwise the second run goes on with the
\* candidates the first left out).
C20_EnrichmentIdempotentWhenNotTruncated ==
    /\ \A i \in 1..Len(pa) : Cardinality(RowsMatching(aa, pa[i])) <= 1
    /\ \A i \in 1..Len(cand) :
          /\ TextLess(cand[i].ssd, before_date)
          /\ ~Matched(IF run = 1 THEN <<>> ELSE once, cand[i])
    /\ run = 2 => IsPrefix(once, aa)
    /\ (run = 2 /\ epc = "done" /\ ~truncated) => aa = once

\* C20 witness: the first run, not cut short, wrote two rows and skipped a
\* candidate HSP had no arrival for; the second run selected that candidate
\* again, has finished, and the table is as the first run left it
C20_Witness ==
    /\ run = 2
    /\ epc = "done"
    /\ ~truncated
    /\ ~dry_run
    /\ Len(once) = 2
    /\ cand # <<>>
    /\ aa = once

\* C20 (as stated): running the worker twice yields the same
\* actual_arrivals_hsp rows as running it once.
C20_TwoRunsEqualOneRun ==
    (run = 2 /\ epc = "done") => aa = once

\* the difference the call of diff_minutes_wrap is about
DiffOfArgs == arg.actual - arg.planned

DiffReturned == fpc = "done" /\ arg.planned # NoDt /\ arg.actual # NoDt

Abs(x) == IF x < 0 THEN -x ELSE x

\* C27 (as amended): diff_minutes_wrap(planned, actual) returns actual -
\* planned in minutes, minus 1440 when that exceeds +1200 and plus 1440 when
\* it is below -1200; the result x satisfies |x| <= 720 whenever |actual -
\* planned| <= 12h, and lies in the closed range [-1200, +1200] whenever
\* |actual - planned| <= 2640 minutes (both ends are attained: -1200 is
\* returned unchanged), and outside it for larger differences; planned
\* 23:58 and actual 00:04 of the same date give +6.
C27_DiffWrapRange ==
    DiffReturned =>
        /\ ret = IF DiffOfArgs > WrapLimit THEN DiffOfArgs - DayMinutes
                 ELSE IF DiffOfArgs < -WrapLimit THEN DiffOfArgs + DayMinutes
                 ELSE DiffOfArgs
        /\ Abs(DiffOfArgs) <= 720 => Abs(ret) <= 720
        /\ Abs(DiffOfArgs) <= 2640 <=> (-WrapLimit <= ret /\ ret <= WrapLimit)
        /\ (arg.planned = 23 * 60 + 58 /\ arg.actual = 4) => ret = 6

\* C27 witness: planned 22:00 and actual 02:00 of the same date, 1200
\* minutes apart, return -1200
C27_Witness ==
    /\ DiffReturned
    /\ arg.planned = 22 * 60
    /\ arg.actual = 2 * 60
    /\ ret = -WrapLimit

\* C27 (as stated): the result lies in (-1200, +1200] for every pair of
\* inputs more than 12 hours apart.
C27_ResultInHalfOpenRange ==
    (DiffReturned /\ Abs(DiffOfArgs) > 720) => (-WrapLimit < ret /\ ret <= WrapLimit)

\* the naive combination of the call of combine_date_time_smart
NaiveOfArgs == combine_date_time(arg.ssd, arg.t)

CombineReturned ==
    /\ fpc = "done"
    /\ NaiveOfArgs # NoDt
    /\ arg.base_dt # NoDt

\* C28 (as amended): combine(ssd, t, base, tz) advances the combined
\* timestamp by one day iff it is earlier than base by strictly more than 2
\* hours; its result is earlier than base exactly when the naive combination
\* of ssd and t is earlier than base by at most 2 hours or by more than 24
\* hours (a base on a later date than the one the advance reaches); ssd
\* 2025-04-10, planned 23:55 and actual 00:04 combine to 2025-04-11 00:04 and
\* a delay of +9.
C28_CombineRollover ==
    /\ CombineReturned =>
          /\ ret = IF arg.base_dt - NaiveOfArgs > rollover_threshold
                   THEN NaiveOfArgs + DayMinutes ELSE NaiveOfArgs
          /\ ret < arg.base_dt <=>
                \/ (0 < arg.base_dt - NaiveOfArgs /\ arg.base_dt - NaiveOfArgs <= rollover_threshold)
                \/ arg.base_dt - NaiveOfArgs > DayMinutes
          /\ (arg.ssd = Days[2] /\ arg.t = <<0, 4>> /\ arg.base_dt = DayMinutes + 23 * 60 + 55) =>
                /\ ret = 2 * DayMinutes + 4
                /\ diff_minutes_wrap(arg.base_dt, ret) = 9
    /\ (fpc = "done" /\ NaiveOfArgs = NoDt) => ret = NoDt
    /\ (fpc = "done" /\ NaiveOfArgs # NoDt /\ arg.base_dt = NoDt) => ret = NaiveOfArgs

\* C28 witness: the base is 00:10 of the day after ssd and the time is
\* 00:04: the naive combination is 24 h 6 min before the base, the result is
\* advanced by a day and is still before the base
C28_Witness ==
    /\ CombineReturned
    /\ arg.ssd = Days[1]
    /\ arg.t = <<0, 4>>
    /\ arg.base_dt = DayMinutes + 10
    /\ ret = DayMinutes + 4

\* C28 (as stated): for every ssd, t and base the result is >= base unless
\* the naive combination is earlier than base by at most 2 hours.
C28_ResultNotBeforeBase ==
    CombineReturned =>
        \/ ret >= arg.base_dt
        \/ (0 < arg.base_dt - NaiveOfArgs /\ arg.base_dt - NaiveOfArgs <= rollover_threshold)


\* ---------------------------------------------------------------------
\* enrichment: the counters of main()

\* the rid the loop is about to handle gets no body from HSP
HspCallFails ==
    /\ epc = "loop"
    /\ work # <<>>
    /\ ~get_service_details_raw(hspResp[Head(work)])

\* the number of candidate rows of the rid the loop is about to handle
GroupSize ==
    Cardinality({i \in 1..Len(cand) : cand[i].rid = Head(work)})

\* C21: when the HSP call for a rid returns nothing (transport error, status
\* other than 200, invalid JSON), skipped_no_hsp grows by exactly the number
\* of candidate rows of that rid, no row is written (the table and the other
\* counters stay as they are) and the loop goes on with the next rid
C21_FailedCallSkipsGroup ==
    [][HspCallFails =>
          /\ skipped_no_hsp' = skipped_no_hsp + GroupSize
          /\ aa' = aa
          /\ written' = written
          /\ skipped_no_match' = skipped_no_match
          /\ skipped_no_times' = skipped_no_times
          /\ work' = Tail(work)
          /\ epc' = "loop"]_vars

\* the call for R1 failed on invalid JSON, its two rows were counted, and the
\* loop went on to write the row of R2
C21_Witness ==
    /\ epc = "done"
    /\ run = 1
    /\ ~dry_run
    /\ hspResp["R1"].outcome = "invalid_json"
    /\ skipped_no_hsp = 2
    /\ written = 1
    /\ Len(aa) = 1
    /\ aa[1].rid = "R2"

\* the rid the loop is about to handle has an HSP answer with locations
HspAnswered ==
    /\ epc = "loop"
    /\ work # <<>>
    /\ hspResp[Head(work)].outcome = "ok"

\* the candidate rows of the rid the loop is about to handle
GroupRows == {i \in 1..Len(cand) : cand[i].rid = Head(work)}

\* what HSP has for the second station of candidate row i
LocOf(i) == hspResp[Head(work)][cand[i].second]

NoMatchRows == {i \in GroupRows : ~LocOf(i).present}

NoTimesRows ==
    {i \in GroupRows : LocOf(i).present /\ (LocOf(i).pta < 0 \/ LocOf(i).ata < 0)}

WriteRows == GroupRows \ (NoMatchRows \cup NoTimesRows)

\* the minute of the day the four digits HHMM name
MinuteOfDay(v) == (v \div 100) * 60 + (v % 100)

\* actual minus planned in minutes, a day apart counting as no time apart
ArrivalDelay(loc) ==
    ((MinuteOfDay(loc.ata) - MinuteOfDay(loc.pta) + 720) % DayMinutes) - 720

\* row arec of actual_arrivals_hsp is the record of candidate row i
RecordOf(arec, i) ==
    /\ arec.rid = cand[i].rid
    /\ arec.first = cand[i].first
    /\ arec.second = cand[i].second
    /\ arec.planned_dep = cand[i].planned_dep

C23_DryRunCountsButWritesNothing ==
    [][dry_run =>
          /\ aa' = aa
          /\ HspAnswered => written' = written + Cardinality(WriteRows)]_vars

\* a dry run over a table that held a row ended having counted three rows to
\* write, with the table as it was
C23_Witness ==
    /\ dry_run
    /\ epc = "done"
    /\ run = 1
    /\ written = 3
    /\ aa = <<EarlierArrival>>

\* ---------------------------------------------------------------------
\* the in-progress filter

FilterReturned == fpc = "done" /\ DOMAIN arg = {"segments", "now"}

\* the instant the timetable has the departure at A
TimetableDep(seg) ==
    (DayNo(seg.ssd) - 1 + seg.dep_day) * DayMinutes + parse_hms(seg.planned_dep)

\* the instant the timetable has the arrival at B: the first time after the
\* departure at A that the clock shows planned_arr_second
TimetableArr(seg) ==
    TimetableDep(seg) +
        ((parse_hms(planned_arr_second(seg)) - parse_hms(seg.planned_dep))
            % DayMinutes)

\* the segment is in progress at now by the timetable
InProgressByTimetable(seg, now) ==
    /\ seg.ssd # None
    /\ seg.planned_dep # NoText
    /\ planned_arr_second(seg) # NoText
    /\ TimetableDep(seg) <= now + 5
    /\ TimetableArr(seg) >= now - 2

\* C26: the in-progress filter keeps a segment iff its planned departure at A
\* is at most now + 5 minutes and its planned arrival at B (the pta of the
\* second location, else its wta) is at least now - 2 minutes; a segment
\* without planned departure or planned arrival at B is never kept, and the
\* kept segments come in the order of the input
C26_KeepsSegmentsInProgress ==
    FilterReturned =>
        ret = SelectSeq(arg.segments,
                        LAMBDA seg : InProgressByTimetable(seg, arg.now))

\* on frames whose departures are all on the day ssd the filter keeps exactly
\* the segments in progress by the timetable
FilterRightOnStartDay ==
    (FilterReturned /\ \A i \in 1..Len(arg.segments) : arg.segments[i].dep_day = 0)
        => ret = SelectSeq(arg.segments,
                           LAMBDA seg : InProgressByTimetable(seg, arg.now))

\* a frame with a segment in progress returned with that segment kept
FilterKeptOne == FilterReturned /\ Len(arg.segments) = 2 /\ Len(ret) = 1

\* ---------------------------------------------------------------------
\* extract_segments

ExtractReturned ==
    /\ fpc \in {"done", "built"}
    /\ DOMAIN arg = {"forecasts", "schedules"}

\* the segments extract_segments returned
Emitted == IF fpc = "built" THEN ret.segs ELSE ret

\* the forecasts have a row for station s
Reported(s) == \E i \in 1..Len(arg.forecasts) : arg.forecasts[i].tpl = s

\* the row the forecasts have for station s
RowAt(s) == _build_tpl_index(arg.forecasts)[s]

\* the tracked pairs whose two locations are in the forecasts
ReportedPairs ==
    {i \in 1..Len(STATION_PAIRS) :
        Reported(STATION_PAIRS[i][1]) /\ Reported(STATION_PAIRS[i][2])}

\* minutes of the day of the time the vote reads at A and at B of pair i
VoteDep(i) ==
    parse_hms(_first_non_empty(RowAt(STATION_PAIRS[i][1]),
                               <<"ptd", "wtd", "dep_et", "dep_at">>))
VoteArr(i) ==
    parse_hms(_first_non_empty(RowAt(STATION_PAIRS[i][2]),
                               <<"pta", "wta", "arr_et", "arr_wet", "arr_at">>))

\* the pairs that vote: a usable time at A and at B
Voters == {i \in ReportedPairs : VoteDep(i) # NoDt /\ VoteArr(i) # NoDt}

\* B minus A in minutes of the day, plus a day when below -720
VoteDelta(i) ==
    IF VoteArr(i) - VoteDep(i) < -720
    THEN VoteArr(i) - VoteDep(i) + 1440
    ELSE VoteArr(i) - VoteDep(i)

\* the frame is rejected by the vote as C25 describes it
RejectedByVote ==
    \/ \E i \in Voters : VoteDelta(i) <= -10
    \/ /\ Cardinality(Voters) >= 2
       /\ Cardinality({i \in Voters : VoteDelta(i) < 0})
             > Cardinality({i \in Voters : VoteDelta(i) >= 0})

\* the schedules name an origin and a destination
OriginRows ==
    {i \in 1..Len(arg.schedules) :
        arg.schedules[i].type = "OR" /\ arg.schedules[i].tpl # None}
DestRows ==
    {i \in 1..Len(arg.schedules) :
        arg.schedules[i].type = "DT" /\ arg.schedules[i].tpl # None}
BothEndpoints == OriginRows # {} /\ DestRows # {}

\* C25: the reverse vote, over the tracked pairs with a usable time at A and
\* at B and delta = B minus A in minutes of the day (plus 1440 when below
\* -720): any single delta <= -10 rejects the frame at once; otherwise, with
\* at least two votes, the frame is rejected iff the pairs with delta < 0
\* strictly outnumber the pairs with delta >= 0; with fewer than two votes it
\* is accepted.  When an endpoint is missing from the schedules a rejected
\* frame gives no segment and an accepted one gives a segment per pair
C25_ReverseVote ==
    ExtractReturned =>
        /\ _is_reverse_by_vote(_build_tpl_index(arg.forecasts)) = RejectedByVote
        /\ ~BothEndpoints =>
              IF RejectedByVote THEN Emitted = <<>>
              ELSE Len(Emitted) = Cardinality(ReportedPairs)

\* a frame without schedules whose three pairs vote 5 forward, 3 backward and
\* 9 backward was rejected by the majority, no delta reaching -10
C25_Witness ==
    /\ ExtractReturned
    /\ arg.schedules = <<>>
    /\ Cardinality(Voters) = 3
    /\ \A i \in Voters : VoteDelta(i) > -10
    /\ \E i \in Voters : VoteDelta(i) = 5
    /\ \E i \in Voters : VoteDelta(i) = -3
    /\ \E i \in Voters : VoteDelta(i) = -9
    /\ Emitted = <<>>

\* the endpoints the schedules name: the last OR row and the last DT row
ScheduleOrigin ==
    arg.schedules[CHOOSE i \in OriginRows : \A j \in OriginRows : j <= i].tpl
ScheduleDest ==
    arg.schedules[CHOOSE i \in DestRows : \A j \in DestRows : j <= i].tpl

\* the pairs of the emitted segments, in order
EmittedPairs == [i \in 1..Len(Emitted) |-> <<Emitted[i].first, Emitted[i].second>>]

\* the tracked pairs with both locations reported, in journey order
RECURSIVE ReportedPairsFrom(_)
ReportedPairsFrom(i) ==
    IF i > Len(STATION_PAIRS) THEN <<>>
    ELSE IF i \in ReportedPairs
         THEN <<STATION_PAIRS[i]>> \o ReportedPairsFrom(i + 1)
         ELSE ReportedPairsFrom(i + 1)

\* C24: with drop_wrong_direction set, schedules that carry an OR and a DT
\* endpoint equal to (route origin, route destination) give one segment for
\* every tracked pair whose two locations are in the forecasts; schedules
\* whose two endpoints differ from that (swapped, say) give no segment; the
\* reverse vote decides only when an endpoint is missing
C24_DirectionBySchedule ==
    ExtractReturned =>
        IF BothEndpoints
        THEN IF ScheduleOrigin = "WEYMTH" /\ ScheduleDest = "WATRLMN"
             THEN EmittedPairs = ReportedPairsFrom(1)
             ELSE Emitted = <<>>
        ELSE \/ RejectedByVote /\ Emitted = <<>>
             \/ ~RejectedByVote /\ EmittedPairs = ReportedPairsFrom(1)

\* schedules with the route's endpoints gave all three segments of a frame
\* that the vote would have rejected
C24_Witness ==
    /\ ExtractReturned
    /\ BothEndpoints
    /\ ScheduleOrigin = "WEYMTH"
    /\ ScheduleDest = "WATRLMN"
    /\ RejectedByVote
    /\ Len(Emitted) = 3

\* the departure time and kind the precedence of C29 gives for location a
PrecedenceOf(a) ==
    IF a.atd # NoText THEN <<a.atd, "actual">>
    ELSE IF a.dep_at # NoText THEN <<a.dep_at, "actual">>
    ELSE IF a.etd # NoText THEN <<a.etd, "estimate">>
    ELSE IF a.dep_et # NoText THEN <<a.dep_et, "estimate">>
    ELSE IF a.wtd # NoText THEN <<a.wtd, "estimate">>
    ELSE IF a.ptd # NoText THEN <<a.ptd, "estimate">>
    ELSE <<NoText, "missing">>

\* C29: for every emitted segment the departure time at A is taken from atd
\* or dep_at (kind actual, has_actual_dep true), else etd or dep_et
\* (estimate), else wtd (estimate), else ptd (estimate), else the kind is
\* missing; has_actual_dep is true iff the kind is actual, and
\* dep_time_for_prediction is absent iff the kind is missing
C29_DepartureSourcePrecedence ==
    ExtractReturned =>
        \A i \in 1..Len(Emitted) :
            LET seg == Emitted[i]
            IN  /\ <<seg.dep_time_for_prediction, seg.dep_time_kind>>
                      = PrecedenceOf(seg.loc_first)
                /\ seg.has_actual_dep <=> seg.dep_time_kind = "actual"
                /\ seg.dep_time_for_prediction = NoText
                      <=> seg.dep_time_kind = "missing"

\* a segment whose origin had only wtd and ptd took the working time as an
\* estimate
C29_Witness ==
    /\ ExtractReturned
    /\ Len(Emitted) = 1
    /\ Emitted[1].loc_first.atd = NoText
    /\ Emitted[1].loc_first.dep_at = NoText
    /\ Emitted[1].loc_first.etd = NoText
    /\ Emitted[1].loc_first.dep_et = NoText
    /\ Emitted[1].loc_first.wtd = <<9, 1>>
    /\ Emitted[1].loc_first.ptd = <<9, 0>>
    /\ Emitted[1].dep_time_for_prediction = <<9, 1>>
    /\ Emitted[1].dep_time_kind = "estimate"
    /\ ~Emitted[1].has_actual_dep

DwellIsDifference ==
    /\ ExtractReturned
    /\ fpc = "built"
    /\ Len(ret.segs) = 2
    /\ ret.segs[2].departure_delay_min = 4
    /\ ret.segs[2].arrival_delay_min = 2
    /\ ret.segs[2].dwell_delay_min = 2
    /\ ret.feats[2].dwell_delay = 2

\* ---------------------------------------------------------------------
\* the weighted ensemble

PredictReturned == fpc = "done" /\ DOMAIN arg = {"weights", "pair_key", "preds"}

\* the weights defined for the pair asked for, none being the empty map
WeightsOfPair ==
    IF arg.pair_key \in DOMAIN arg.weights THEN arg.weights[arg.pair_key]
    ELSE [m \in {} |-> 0]

SumOfWeights == SumOver(WeightsOfPair, DOMAIN WeightsOfPair)

\* C31: predict_one returns not-present when no weights are defined for the
\* pair and also when the sum of the pair's weights is not greater than 0;
\* otherwise it returns the sum of weight times sub-model prediction divided
\* by the sum of the weights
C31_NormalisedOrNotPresent ==
    PredictReturned =>
        IF DOMAIN WeightsOfPair = {} \/ SumOfWeights <= 0
        THEN ret = NoPrediction
        ELSE ret = Quotient(
                 SumOver([m \in DOMAIN WeightsOfPair |->
                             WeightsOfPair[m] * arg.preds[m]],
                         DOMAIN WeightsOfPair),
                 SumOfWeights)

\* whenever the weights of the pair sum to more than 0, or the pair has none,
\* the result is the one C31 describes
PredictRightOnPositiveWeights ==
    (PredictReturned /\ (DOMAIN WeightsOfPair = {} \/ SumOfWeights > 0))
        => C31_NormalisedOrNotPresent

\* ---------------------------------------------------------------------
\* parse_hms on text

ParseReturned == fpc = "done" /\ DOMAIN arg = {"value"}

\* two digits
TwoDigits(s, i) == IsDigit(s[i]) /\ IsDigit(s[i + 1])
NumberAt(s, i) == DigitValue(s[i]) * 10 + DigitValue(s[i + 1])

\* the text has the form HH:MM, HH:MM:SS or HHMM
IsHHcMM(s) == Len(s) = 5 /\ TwoDigits(s, 1) /\ s[3] = ":" /\ TwoDigits(s, 4)
IsHHcMMcSS(s) ==
    /\ Len(s) = 8
    /\ TwoDigits(s, 1) /\ s[3] = ":" /\ TwoDigits(s, 4)
    /\ s[6] = ":" /\ TwoDigits(s, 7)
IsHHMM(s) == Len(s) = 4 /\ TwoDigits(s, 1) /\ TwoDigits(s, 3)

\* the time of day a text of one of the three forms names, not present when
\* hour, minute or second is out of range
TimeNamed(s) ==
    IF IsHHcMM(s) THEN TimeOf(NumberAt(s, 1), NumberAt(s, 4), 0)
    ELSE IF IsHHcMMcSS(s) THEN TimeOf(NumberAt(s, 1), NumberAt(s, 4), NumberAt(s, 7))
    ELSE IF IsHHMM(s) THEN TimeOf(NumberAt(s, 1), NumberAt(s, 3), 0)
    ELSE NoTime

\* C32: the clock parser accepts each of the forms HH:MM, HH:MM:SS and HHMM
\* and returns the time of day it names; for every other input (empty,
\* malformed, hour or minute out of range) it returns not-present
C32_ParsesThreeForms ==
    ParseReturned => ret = TimeNamed(arg.value)

\* a text of the form HH:MM or HH:MM:SS gives the time it names, and a text
\* without a colon gives nothing
ParseRightOnColonForms ==
    ParseReturned =>
        /\ (IsHHcMM(arg.value) \/ IsHHcMMcSS(arg.value))
              => ret = TimeNamed(arg.value)
        /\ (\A i \in 1..Len(arg.value) : arg.value[i] # ":") => ret = NoTime

\* 09:47:30 was parsed
ParsedWithSeconds ==
    /\ ParseReturned
    /\ Len(arg.value) = 8
    /\ ret = [hour |-> 9, minute |-> 47, second |-> 30]

\* ---------------------------------------------------------------------
\* the main-journey flag

JourneyRecorded == fpc = "recorded" /\ DOMAIN arg = {"crss", "locations"}

\* every CRS of the route is the code of some location of the service
EveryRouteCrsPresent ==
    \A i \in 1..Len(arg.crss) :
        arg.crss[i] # None =>
            \E j \in 1..Len(arg.locations) : arg.locations[j] = arg.crss[i]

C34_OnlyWriterWritesStore ==
    [][db' # db =>
        /\ writerPc = "insert"
        /\ writerPc' = "get"
        /\ db' = [db EXCEPT ![item.table] = insert_with_conn(db[item.table], item.rec)]
        /\ cbPc' = cbPc
        /\ mainPc' = mainPc]_vars

\* both tables hold rows after the caller's calls and close have returned
C34_Witness ==
    /\ Len(db.predictions_all) > 0
    /\ Len(db.predictions_actual) > 0
    /\ emitted = StoreCalls
    /\ mainPc = "done"
    /\ writerPc = "exited"

\* insert_all or insert_actual is called on a store whose close was called
InsertCalledAfterClose == cbPc \in {"call_all", "call_actual"} /\ closed

\* close is called on a store whose close was called
CloseCalledAgain == mainPc = "close" /\ closed

\* C36: an insert_all or insert_actual called after close returns False
\* and leaves the queue as it is; a close called after close returns at
\* once: it puts no sentinel, changes no flag and does not join
C36_ClosedStoreRejects ==
    [][/\ (InsertCalledAfterClose /\ cbPc' # cbPc) =>
            /\ cbPc' = "store_ret"
            /\ inserted' = FALSE
            /\ q' = q
            /\ unfinished' = unfinished
            /\ pending' = pending
       /\ (CloseCalledAgain /\ mainPc' # mainPc) =>
            /\ mainPc' = "done"
            /\ q' = q
            /\ unfinished' = unfinished
            /\ stop' = stop
            /\ closed' = closed]_vars

\* the writer has ended, an insert call has returned False although the
\* queue was never full, and close is called a second time
C36_Witness ==
    /\ CloseCalledAgain
    /\ writerPc = "exited"
    /\ cbPc = "store_ret"
    /\ ~inserted
    /\ dropped = {}

\* C37: with close(drain=True) running beside the caller, no record whose
\* enqueue returned True is unwritten once the writer thread has exited
C37_AcceptedNeverBehindSentinel ==
    (drain /\ writerPc = "exited") => pending = <<>>

\* with close(drain=True) the records accepted before close was called are
\* written when the writer thread exits
DrainWritesAcceptedBeforeClose ==
    (drain /\ writerPc = "exited") => owed = 0

\* C38: no insert fails; once the writer thread has exited, every record
\* accepted before close was called has been written, whatever drain is and
\* whether or not the sentinel was enqueued
C38_AcceptedBeforeCloseWritten ==
    writerPc = "exited" => owed = 0

\* the writer thread exits only when it has the sentinel or has seen the
\* stop flag after a get that timed out
WriterExitsOnSentinelOrStop ==
    [][(writerPc # "exited" /\ writerPc' = "exited") =>
        \/ writerPc = "get" /\ q # <<>> /\ Head(q) = SENTINEL
        \/ writerPc = "empty" /\ stop]_vars

\* ---------------------------------------------------------------------
\* touch called with any arguments

\* actual_saved of the entry of seg_id in od, False for a missing entry
SavedIn(cache, seg_id) ==
    IF InCache(cache, seg_id) THEN cache[IndexOf(cache, seg_id)].actual_saved ELSE FALSE

\* C35: a call touch(seg_id, dep_time, kind, has_actual) raises the tick by
\* one, leaves an entry for seg_id at the most-recently-used end holding
\* dep_time, the new tick as last_seen_order (larger than that of every
\* other entry), last_kind actual when has_actual and kind otherwise, and
\* the actual_saved the entry had before (False for a new entry)
C35_TouchUpdatesEntry ==
    [][tick' # tick =>
        /\ tick' = tick + 1
        /\ od' # <<>>
        /\ LET state == od'[Len(od')]
           IN  /\ state.seg_id = arg'.seg_id
               /\ state.last_dep_time = arg'.dep_time
               /\ state.last_seen_order = tick'
               /\ state.last_kind = IF arg'.has_actual THEN "actual" ELSE arg'.kind
               /\ state.actual_saved = SavedIn(od, arg'.seg_id)
        /\ \A i \in 1..(Len(od') - 1) :
              /\ od'[i].seg_id # arg'.seg_id
              /\ od'[i].last_seen_order < tick']_vars

\* an entry whose actual was saved is touched again with kind estimate and
\* has_actual true while another entry is in the cache
C35_Witness ==
    /\ DOMAIN arg = {"seg_id", "dep_time", "kind", "has_actual"}
    /\ arg.has_actual
    /\ arg.kind = "estimate"
    /\ Len(od) = 2
    /\ od[2].seg_id = arg.seg_id
    /\ od[2].last_kind = "actual"
    /\ od[2].actual_saved
    /\ od[2].last_seen_order = tick
    /\ tick = 3

\* ---------------------------------------------------------------------
\* the counters of an enrichment run

\* the rids the run made an HSP call for: the first max_rids keys of by_rid
ProcessedRids ==
    LET rids == RidOrder(cand)
    IN  {rids[i] : i \in 1..Min(max_rids, Len(rids))}

\* the candidate rows of those rids
ProcessedRows == {i \in 1..Len(cand) : cand[i].rid \in ProcessedRids}

\* C39: when a run of the worker has ended, the four counters add up to the
\* number of candidate rows of the rids processed, and these are at most
\* max_rids rids
C39_CountersCoverProcessedRows ==
    epc = "done" =>
        /\ written + skipped_no_hsp + skipped_no_match + skipped_no_times
               = Cardinality(ProcessedRows)
        /\ Cardinality(ProcessedRids) <= max_rids

\* a run that left a candidate row out because of max_rids has ended with
\* rows written and rows skipped
C39_Witness ==
    /\ epc = "done"
    /\ written > 0
    /\ skipped_no_hsp + skipped_no_match + skipped_no_times > 0
    /\ Cardinality(ProcessedRows) < Len(cand)

\* ---------------------------------------------------------------------
\* frames with more than one TS element

\* index in STATION_PAIRS of the pair of a segment
PairIndex(seg) ==
    CHOOSE i \in 1..Len(STATION_PAIRS) :
        STATION_PAIRS[i] = <<seg.first, seg.second>>

\* the last row of the frame for a TIPLOC
LastRowOf(tpl) ==
    arg.forecasts[CHOOSE i \in 1..Len(arg.forecasts) :
                      /\ arg.forecasts[i].tpl = tpl
                      /\ \A j \in (i + 1)..Len(arg.forecasts) :
                            arg.forecasts[j].tpl # tpl]

\* the segments are in route order, at most one per tracked pair, and each
\* is built from the last row of the frame for A and for B
RouteOrderLastOccurrence ==
    ExtractReturned =>
        /\ \A i \in 1..Len(Emitted) :
              /\ \E k \in 1..Len(STATION_PAIRS) :
                    STATION_PAIRS[k] = <<Emitted[i].first, Emitted[i].second>>
              /\ Emitted[i].loc_first = LastRowOf(Emitted[i].first)
              /\ Emitted[i].loc_second = LastRowOf(Emitted[i].second)
        /\ \A i, j \in 1..Len(Emitted) :
              i < j => PairIndex(Emitted[i]) < PairIndex(Emitted[j])

\* C40: every emitted segment carries the rid and ssd of the service whose
\* locations supplied its times at A and at B, the segments are in route
\* order with at most one per tracked pair, and each uses the last
\* occurrence of its TIPLOCs
C40_SegmentOfOneService ==
    /\ RouteOrderLastOccurrence
    /\ ExtractReturned =>
          \A i \in 1..Len(Emitted) :
              /\ Emitted[i].loc_first.rid = Emitted[i].rid
              /\ Emitted[i].loc_second.rid = Emitted[i].rid
              /\ Emitted[i].loc_first.ssd = Emitted[i].ssd
              /\ Emitted[i].loc_second.ssd = Emitted[i].ssd

\* in a frame whose rows all belong to one service every segment carries
\* the rid and ssd of its two locations
OneServiceFrame ==
    \A i \in 1..Len(arg.forecasts) :
        /\ arg.forecasts[i].rid = arg.forecasts[1].rid
        /\ arg.forecasts[i].ssd = arg.forecasts[1].ssd

SegmentOfOneServiceInOneServiceFrame ==
    (ExtractReturned /\ OneServiceFrame) =>
        \A i \in 1..Len(Emitted) :
            /\ Emitted[i].loc_first.rid = Emitted[i].rid
            /\ Emitted[i].loc_second.rid = Emitted[i].rid
            /\ Emitted[i].loc_first.ssd = Emitted[i].ssd
            /\ Emitted[i].loc_second.ssd = Emitted[i].ssd
====
